---------------------------- MODULE Spec2Model ----------------------------
(***************************************************************************)
(* Game API server (server.js) with its move validator                     *)
(* (ChessValidator.js): the session registries gameStates and              *)
(* ticTacToeStates, the ChessGame and TicTacToeGame objects they hold, and *)
(* the request handlers that act on them.                                  *)
(*                                                                         *)
(* Strings are sequences of characters.  The twelve chess glyphs are       *)
(* written as two-letter characters: "wK" is U+2654 (white king), "wQ"     *)
(* U+2655, "wR" U+2656, "wB" U+2657, "wN" U+2658, "wP" U+2659, and "bK",   *)
(* "bQ", "bR", "bB", "bN", "bP" are U+265A .. U+265F.                      *)
(*                                                                         *)
(* Node runs one handler at a time: the synchronous part of a handler is   *)
(* one action.  The ai-move handler awaits the AI process, so it is two    *)
(* actions, and other requests are served in between.                      *)
(***************************************************************************)
EXTENDS Integers, Sequences, FiniteSets, Bags, TLC

(***************************************************************************)
(* Bounds of the model.                                                    *)
(***************************************************************************)
\* Date.now() takes the values 0 .. MaxClock (milliseconds since start).
MaxClock == 1
\* At most MaxGames ChessGame objects are constructed.
MaxGames == 2
\* At most MaxMoves moves are recorded, over all games.
MaxMoves == 2
\* At most MaxLongMoves moves are recorded in the one game of SpecOneGame.
MaxLongMoves == 6
\* At most MaxPending ai-move requests are suspended at a time.
MaxPending == 2
\* At most MaxTicTacToePending tic-tac-toe ai-move requests are suspended at a
\* time.
MaxTicTacToePending == 2
\* The boards ChessValidator is called on hold the piece on `from' and at most
\* MaxOthers other pieces.
MaxOthers == 1

VARIABLES
    now,         \* the value Date.now() returns
    gameStates,  \* the Map gameStates: game id -> reference to a ChessGame
    games,       \* the ChessGame objects, by reference (order of construction)
    boards,      \* the board objects, by reference (order of construction)
    aiPending,   \* the ai-move requests suspended in `await getAIMove(game)'
    observed,    \* per game: for each recorded move, the history length its
                 \* request saw when it passed the turn check
    lastResp,    \* the response sent last
    ticTacToeStates,   \* the Map ticTacToeStates: game id -> reference
    ticTacToeGames,    \* the TicTacToeGame objects, by reference
    ticTacToePending,  \* the tic-tac-toe ai-move requests suspended in
                       \* `await getTicTacToeAIMove(game)'
    validation,  \* a call of a method of ChessValidator: the method, its
                 \* arguments and the value returned
    client       \* the state of the browser client (App)

\* The state of the chess endpoints and of the tic-tac-toe endpoints.
chessVars == <<gameStates, games, boards, aiPending, observed>>
ticTacToeVars == <<ticTacToeStates, ticTacToeGames, ticTacToePending>>

serverVars == <<now, chessVars, lastResp, ticTacToeVars>>

vars == <<serverVars, validation, client>>

(***************************************************************************)
(* Strings.                                                                *)
(***************************************************************************)
Files == <<"a", "b", "c", "d", "e", "f", "g", "h">>
Digits == <<"1", "2", "3", "4", "5", "6", "7", "8">>
DecimalDigits == <<"0", "1", "2", "3", "4", "5", "6", "7", "8", "9">>
WhiteGlyphs == <<"wK", "wQ", "wR", "wB", "wN", "wP">>
BlackGlyphs == <<"bK", "bQ", "bR", "bB", "bN", "bP">>

\* What a property lookup gives for a missing key.
Undefined == <<"undefined">>

\* JavaScript truthiness of a string or undefined.
Truthy(x) == x # Undefined /\ x # <<>>

\* String.prototype.includes: s occurs in text as a substring.
Includes(text, s) ==
    \E i \in 0..(Len(text) - Len(s)) : SubSeq(text, i + 1, i + Len(s)) = s

\* s[i] for a string s, as a string; undefined past the end.
CharAt(s, i) == IF i + 1 \in 1..Len(s) THEN <<s[i + 1]>> ELSE Undefined

\* c.charCodeAt(0) - 'a'.charCodeAt(0), for the letters a .. h.
LetterOffset(c) == (CHOOSE i \in 1..8 : Files[i] = c) - 1

\* parseInt of one of the digits 1 .. 8.
ParseDigit(c) == CHOOSE i \in 1..8 : Digits[i] = c

\* Number.prototype.toString, for n >= 0.
RECURSIVE NumberToString(_)
NumberToString(n) ==
    IF n < 10 THEN <<DecimalDigits[n + 1]>>
    ELSE NumberToString(n \div 10) \o <<DecimalDigits[(n % 10) + 1]>>

\* String.fromCharCode('a'.charCodeAt(0) + file) + (rank + 1).  Off the board
\* the name is no key of any board.
SquareName(file, rank) ==
    <<IF file \in 0..7 THEN Files[file + 1] ELSE "?">>
        \o (IF rank + 1 >= 0 THEN NumberToString(rank + 1) ELSE <<"-">> \o NumberToString(-(rank + 1)))

Abs(x) == IF x < 0 THEN -x ELSE x

(***************************************************************************)
(* ChessValidator.                                                         *)
(***************************************************************************)
isValidSquare(square) ==
    /\ Len(square) = 2
    /\ Includes(Files, CharAt(square, 0))
    /\ Includes(Digits, CharAt(square, 1))

isWhitePiece(piece) == Includes(WhiteGlyphs, piece)

isBlackPiece(piece) == Includes(BlackGlyphs, piece)

getPieceColor(piece) ==
    IF isWhitePiece(piece) THEN "white"
    ELSE IF isBlackPiece(piece) THEN "black"
    ELSE "null"

getPieceType(piece) ==
    CASE piece \in {<<"wK">>, <<"bK">>} -> "king"
      [] piece \in {<<"wQ">>, <<"bQ">>} -> "queen"
      [] piece \in {<<"wR">>, <<"bR">>} -> "rook"
      [] piece \in {<<"wB">>, <<"bB">>} -> "bishop"
      [] piece \in {<<"wN">>, <<"bN">>} -> "knight"
      [] piece \in {<<"wP">>, <<"bP">>} -> "pawn"
      [] OTHER -> "unknown"

\* getSquareCoordinates without the `- 1' of the rank.
getSquareCoordinates_OneBased(square) ==
    [file |-> LetterOffset(square[1]), rank |-> ParseDigit(square[2])]

getSquareCoordinates(square) ==
    [file |-> LetterOffset(square[1]), rank |-> ParseDigit(square[2]) - 1]

\* board[square]
At(board, square) ==
    IF square \in DOMAIN board THEN board[square] ELSE Undefined

\* The squares the loop of isPathClear reads, from (file, rank) on, until it
\* arrives at `to'; n bounds the walk (a walk that misses `to' leaves the
\* board after at most 8 steps and never returns).
RECURSIVE PathClearFrom(_, _, _, _, _, _, _)
PathClearFrom(board, file, rank, fileStep, rankStep, to, n) ==
    IF file = to.file /\ rank = to.rank THEN TRUE
    ELSE IF n = 0 THEN FALSE
    ELSE IF Truthy(At(board, SquareName(file, rank))) THEN FALSE
    ELSE PathClearFrom(board, file + fileStep, rank + rankStep,
                       fileStep, rankStep, to, n - 1)

isPathClear(board, from, to) ==
    LET fileStep == IF to.file > from.file THEN 1
                    ELSE IF to.file < from.file THEN -1 ELSE 0
        rankStep == IF to.rank > from.rank THEN 1
                    ELSE IF to.rank < from.rank THEN -1 ELSE 0
    IN  PathClearFrom(board, from.file + fileStep, from.rank + rankStep,
                      fileStep, rankStep, to, 16)

\* isValidPawnMove without the look at the square the double step passes.
isValidPawnMove_LeapsOver(board, from, to, isWhite) ==
    LET direction == IF isWhite THEN 1 ELSE -1
        startRank == IF isWhite THEN 1 ELSE 6
        fileDiff == Abs(to.file - from.file)
        rankDiff == to.rank - from.rank
    IN  IF fileDiff = 0
        THEN IF rankDiff = direction
             THEN ~Truthy(At(board, SquareName(to.file, to.rank)))
             ELSE IF rankDiff = 2 * direction /\ from.rank = startRank
             THEN ~Truthy(At(board, SquareName(to.file, to.rank)))
             ELSE FALSE
        ELSE IF fileDiff = 1 /\ rankDiff = direction
        THEN LET targetPiece == At(board, SquareName(to.file, to.rank))
             IN  /\ Truthy(targetPiece)
                 /\ getPieceColor(targetPiece) # (IF isWhite THEN "white" ELSE "black")
        ELSE FALSE

isValidPawnMove(board, from, to, isWhite) ==
    LET direction == IF isWhite THEN 1 ELSE -1
        startRank == IF isWhite THEN 1 ELSE 6
        fileDiff == Abs(to.file - from.file)
        rankDiff == to.rank - from.rank
    IN  IF fileDiff = 0
        THEN IF rankDiff = direction
             THEN ~Truthy(At(board, SquareName(to.file, to.rank)))
             ELSE IF rankDiff = 2 * direction /\ from.rank = startRank
             THEN /\ ~Truthy(At(board, SquareName(to.file, from.rank + direction)))
                  /\ ~Truthy(At(board, SquareName(to.file, to.rank)))
             ELSE FALSE
        ELSE IF fileDiff = 1 /\ rankDiff = direction
        THEN LET targetPiece == At(board, SquareName(to.file, to.rank))
             IN  /\ Truthy(targetPiece)
                 /\ getPieceColor(targetPiece) # (IF isWhite THEN "white" ELSE "black")
        ELSE FALSE

isValidRookMove(board, from, to) ==
    IF from.file # to.file /\ from.rank # to.rank THEN FALSE
    ELSE isPathClear(board, from, to)

isValidBishopMove(board, from, to) ==
    LET fileDiff == Abs(to.file - from.file)
        rankDiff == Abs(to.rank - from.rank)
    IN  IF fileDiff # rankDiff THEN FALSE
        ELSE isPathClear(board, from, to)

\* isValidQueenMove without the bishop's moves.
isValidQueenMove_RookOnly(board, from, to) ==
    isValidRookMove(board, from, to)

isValidQueenMove(board, from, to) ==
    isValidRookMove(board, from, to) \/ isValidBishopMove(board, from, to)

\* isValidKingMove that also lets the king go two files along its rank.
isValidKingMove_Castles(from, to) ==
    LET fileDiff == Abs(to.file - from.file)
        rankDiff == Abs(to.rank - from.rank)
    IN  \/ fileDiff <= 1 /\ rankDiff <= 1 /\ (fileDiff > 0 \/ rankDiff > 0)
        \/ fileDiff = 2 /\ rankDiff = 0

isValidKingMove(from, to) ==
    LET fileDiff == Abs(to.file - from.file)
        rankDiff == Abs(to.rank - from.rank)
    IN  fileDiff <= 1 /\ rankDiff <= 1 /\ (fileDiff > 0 \/ rankDiff > 0)

isValidKnightMove(from, to) ==
    LET fileDiff == Abs(to.file - from.file)
        rankDiff == Abs(to.rank - from.rank)
    IN  (fileDiff = 2 /\ rankDiff = 1) \/ (fileDiff = 1 /\ rankDiff = 2)

\* isValidPieceMove with a knight held up by a piece next to it, on the
\* square towards the destination.
isValidPieceMove_KnightObstructed(board, from, to, piece) ==
    LET fromCoords == getSquareCoordinates(from)
        toCoords == getSquareCoordinates(to)
        pieceType == getPieceType(piece)
        isWhite == isWhitePiece(piece)
        fileStep == IF toCoords.file > fromCoords.file THEN 1 ELSE -1
        rankStep == IF toCoords.rank > fromCoords.rank THEN 1 ELSE -1
    IN  CASE pieceType = "pawn" -> isValidPawnMove(board, fromCoords, toCoords, isWhite)
          [] pieceType = "rook" -> isValidRookMove(board, fromCoords, toCoords)
          [] pieceType = "bishop" -> isValidBishopMove(board, fromCoords, toCoords)
          [] pieceType = "queen" -> isValidQueenMove(board, fromCoords, toCoords)
          [] pieceType = "king" -> isValidKingMove(fromCoords, toCoords)
          [] pieceType = "knight" ->
                 /\ isValidKnightMove(fromCoords, toCoords)
                 /\ ~Truthy(At(board, SquareName(fromCoords.file + fileStep,
                                                 fromCoords.rank + rankStep)))
          [] OTHER -> FALSE

isValidPieceMove(board, from, to, piece) ==
    LET fromCoords == getSquareCoordinates(from)
        toCoords == getSquareCoordinates(to)
        pieceType == getPieceType(piece)
        isWhite == isWhitePiece(piece)
    IN  CASE pieceType = "pawn" -> isValidPawnMove(board, fromCoords, toCoords, isWhite)
          [] pieceType = "rook" -> isValidRookMove(board, fromCoords, toCoords)
          [] pieceType = "bishop" -> isValidBishopMove(board, fromCoords, toCoords)
          [] pieceType = "queen" -> isValidQueenMove(board, fromCoords, toCoords)
          [] pieceType = "king" -> isValidKingMove(fromCoords, toCoords)
          [] pieceType = "knight" -> isValidKnightMove(fromCoords, toCoords)
          [] OTHER -> FALSE

\* The number of squares the loop of isPathClear is followed for.
WalkLimit == 16

\* The run of the loop of isPathClear from (file, rank) on: the squares it
\* reads, as coordinates, and whether it has left the loop, on arriving at
\* `to' or on an occupied square, within n reads.
RECURSIVE PathWalkFrom(_, _, _, _, _, _, _)
PathWalkFrom(board, file, rank, fileStep, rankStep, to, n) ==
    IF file = to.file /\ rank = to.rank THEN [read |-> <<>>, returns |-> TRUE]
    ELSE IF n = 0 THEN [read |-> <<>>, returns |-> FALSE]
    ELSE IF Truthy(At(board, SquareName(file, rank)))
    THEN [read |-> <<[file |-> file, rank |-> rank]>>, returns |-> TRUE]
    ELSE LET rest == PathWalkFrom(board, file + fileStep, rank + rankStep,
                                  fileStep, rankStep, to, n - 1)
         IN  [read |-> <<[file |-> file, rank |-> rank]>> \o rest.read,
              returns |-> rest.returns]

\* The run of isPathClear(board, from, to), followed for WalkLimit reads.
isPathClear_Walk(board, from, to) ==
    LET fileStep == IF to.file > from.file THEN 1
                    ELSE IF to.file < from.file THEN -1 ELSE 0
        rankStep == IF to.rank > from.rank THEN 1
                    ELSE IF to.rank < from.rank THEN -1 ELSE 0
    IN  PathWalkFrom(board, from.file + fileStep, from.rank + rankStep,
                     fileStep, rankStep, to, WalkLimit)

\* The calls of a rook rule that asks isPathClear about any two squares.
isPathClearCalls_AnyRookMove(board, from, to, piece) ==
    LET fromCoords == getSquareCoordinates(from)
        toCoords == getSquareCoordinates(to)
        pieceType == getPieceType(piece)
        bishopCalls == IF Abs(toCoords.file - fromCoords.file)
                              # Abs(toCoords.rank - fromCoords.rank)
                       THEN {} ELSE {<<fromCoords, toCoords>>}
    IN  CASE pieceType = "rook" -> {<<fromCoords, toCoords>>}
          [] pieceType = "bishop" -> bishopCalls
          [] pieceType = "queen" ->
                 {<<fromCoords, toCoords>>}
                     \cup (IF isPathClear(board, fromCoords, toCoords)
                           THEN {} ELSE bishopCalls)
          [] OTHER -> {}

\* The calls isPathClear(board, from, to) that isValidPieceMove(board, from,
\* to, piece) makes, as pairs <<from, to>> of coordinates: the rook rule
\* calls it unless both file and rank differ, the bishop rule unless the
\* file and rank distances differ, the queen rule is the rook rule or else
\* the bishop rule, and the other rules do not call it.
isPathClearCalls(board, from, to, piece) ==
    LET fromCoords == getSquareCoordinates(from)
        toCoords == getSquareCoordinates(to)
        pieceType == getPieceType(piece)
        rookCalls == IF fromCoords.file # toCoords.file
                            /\ fromCoords.rank # toCoords.rank
                     THEN {} ELSE {<<fromCoords, toCoords>>}
        bishopCalls == IF Abs(toCoords.file - fromCoords.file)
                              # Abs(toCoords.rank - fromCoords.rank)
                       THEN {} ELSE {<<fromCoords, toCoords>>}
    IN  CASE pieceType = "rook" -> rookCalls
          [] pieceType = "bishop" -> bishopCalls
          [] pieceType = "queen" ->
                 rookCalls \cup (IF isValidRookMove(board, fromCoords, toCoords)
                                 THEN {} ELSE bishopCalls)
          [] OTHER -> {}

\* isValidMove without the refusal to capture the player's own piece.
isValidMove_SelfCapture(board, from, to, currentPlayer) ==
    IF ~isValidSquare(from) \/ ~isValidSquare(to) THEN FALSE
    ELSE LET piece == At(board, from)
         IN  IF ~Truthy(piece) THEN FALSE
             ELSE IF getPieceColor(piece) # currentPlayer THEN FALSE
             ELSE isValidPieceMove(board, from, to, piece)

\* isValidMove without the comparison of the piece's colour with the player.
isValidMove_AnyColour(board, from, to, currentPlayer) ==
    IF ~isValidSquare(from) \/ ~isValidSquare(to) THEN FALSE
    ELSE LET piece == At(board, from)
         IN  IF ~Truthy(piece) THEN FALSE
             ELSE LET targetPiece == At(board, to)
                  IN  IF Truthy(targetPiece) /\ getPieceColor(targetPiece) = currentPlayer
                      THEN FALSE
                      ELSE isValidPieceMove(board, from, to, piece)

isValidMove(board, from, to, currentPlayer) ==
    IF ~isValidSquare(from) \/ ~isValidSquare(to) THEN FALSE
    ELSE LET piece == At(board, from)
         IN  IF ~Truthy(piece) THEN FALSE
             ELSE IF getPieceColor(piece) # currentPlayer THEN FALSE
             ELSE LET targetPiece == At(board, to)
                  IN  IF Truthy(targetPiece) /\ getPieceColor(targetPiece) = currentPlayer
                      THEN FALSE
                      ELSE isValidPieceMove(board, from, to, piece)

(***************************************************************************)
(* ChessLogic (the validator of the browser client, ChessLogic.ts).        *)
(***************************************************************************)
ChessLogic_isValidSquare(square) ==
    /\ Len(square) = 2
    /\ Includes(Files, CharAt(square, 0))
    /\ Includes(Digits, CharAt(square, 1))

ChessLogic_isWhitePiece(piece) == Includes(WhiteGlyphs, piece)

ChessLogic_isBlackPiece(piece) == Includes(BlackGlyphs, piece)

ChessLogic_getPieceColor(piece) ==
    IF ChessLogic_isWhitePiece(piece) THEN "white"
    ELSE IF ChessLogic_isBlackPiece(piece) THEN "black"
    ELSE "null"

\* pieceMap[piece] || 'unknown'
ChessLogic_getPieceType(piece) ==
    LET pieceMap ==
            [glyph \in {<<WhiteGlyphs[i]>> : i \in 1..6} \cup {<<BlackGlyphs[i]>> : i \in 1..6} |->
                CASE glyph \in {<<"wK">>, <<"bK">>} -> "king"
                  [] glyph \in {<<"wQ">>, <<"bQ">>} -> "queen"
                  [] glyph \in {<<"wR">>, <<"bR">>} -> "rook"
                  [] glyph \in {<<"wB">>, <<"bB">>} -> "bishop"
                  [] glyph \in {<<"wN">>, <<"bN">>} -> "knight"
                  [] glyph \in {<<"wP">>, <<"bP">>} -> "pawn"]
    IN  IF piece \in DOMAIN pieceMap THEN pieceMap[piece] ELSE "unknown"

ChessLogic_getSquareCoordinates(square) ==
    [file |-> LetterOffset(square[1]), rank |-> ParseDigit(square[2]) - 1]

RECURSIVE ChessLogic_PathClearFrom(_, _, _, _, _, _, _)
ChessLogic_PathClearFrom(board, file, rank, fileStep, rankStep, to, n) ==
    IF file = to.file /\ rank = to.rank THEN TRUE
    ELSE IF n = 0 THEN FALSE
    ELSE IF Truthy(At(board, SquareName(file, rank))) THEN FALSE
    ELSE ChessLogic_PathClearFrom(board, file + fileStep, rank + rankStep,
                                  fileStep, rankStep, to, n - 1)

ChessLogic_isPathClear(board, from, to) ==
    LET fileStep == IF to.file > from.file THEN 1
                    ELSE IF to.file < from.file THEN -1 ELSE 0
        rankStep == IF to.rank > from.rank THEN 1
                    ELSE IF to.rank < from.rank THEN -1 ELSE 0
    IN  ChessLogic_PathClearFrom(board, from.file + fileStep, from.rank + rankStep,
                                 fileStep, rankStep, to, 16)

\* A pawn rule that also lets a pawn take the piece straight ahead of it.
ChessLogic_isValidPawnMove_TakesAhead(board, from, to, isWhite) ==
    LET direction == IF isWhite THEN 1 ELSE -1
        startRank == IF isWhite THEN 1 ELSE 6
        fileDiff == Abs(to.file - from.file)
        rankDiff == to.rank - from.rank
    IN  IF fileDiff = 0
        THEN IF rankDiff = direction
             THEN TRUE
             ELSE IF rankDiff = 2 * direction /\ from.rank = startRank
             THEN /\ ~Truthy(At(board, SquareName(to.file, from.rank + direction)))
                  /\ ~Truthy(At(board, SquareName(to.file, to.rank)))
             ELSE FALSE
        ELSE IF fileDiff = 1 /\ rankDiff = direction
        THEN LET targetPiece == At(board, SquareName(to.file, to.rank))
             IN  /\ Truthy(targetPiece)
                 /\ ChessLogic_getPieceColor(targetPiece)
                        # (IF isWhite THEN "white" ELSE "black")
        ELSE FALSE

ChessLogic_isValidPawnMove(board, from, to, isWhite) ==
    LET direction == IF isWhite THEN 1 ELSE -1
        startRank == IF isWhite THEN 1 ELSE 6
        fileDiff == Abs(to.file - from.file)
        rankDiff == to.rank - from.rank
    IN  IF fileDiff = 0
        THEN IF rankDiff = direction
             THEN ~Truthy(At(board, SquareName(to.file, to.rank)))
             ELSE IF rankDiff = 2 * direction /\ from.rank = startRank
             THEN /\ ~Truthy(At(board, SquareName(to.file, from.rank + direction)))
                  /\ ~Truthy(At(board, SquareName(to.file, to.rank)))
             ELSE FALSE
        ELSE IF fileDiff = 1 /\ rankDiff = direction
        THEN LET targetPiece == At(board, SquareName(to.file, to.rank))
             IN  /\ Truthy(targetPiece)
                 /\ ChessLogic_getPieceColor(targetPiece)
                        # (IF isWhite THEN "white" ELSE "black")
        ELSE FALSE

ChessLogic_isValidRookMove(board, from, to) ==
    IF from.file # to.file /\ from.rank # to.rank THEN FALSE
    ELSE ChessLogic_isPathClear(board, from, to)

ChessLogic_isValidBishopMove(board, from, to) ==
    LET fileDiff == Abs(to.file - from.file)
        rankDiff == Abs(to.rank - from.rank)
    IN  IF fileDiff # rankDiff THEN FALSE
        ELSE ChessLogic_isPathClear(board, from, to)

ChessLogic_isValidQueenMove(board, from, to) ==
    ChessLogic_isValidRookMove(board, from, to)
        \/ ChessLogic_isValidBishopMove(board, from, to)

ChessLogic_isValidKingMove(from, to) ==
    LET fileDiff == Abs(to.file - from.file)
        rankDiff == Abs(to.rank - from.rank)
    IN  fileDiff <= 1 /\ rankDiff <= 1 /\ (fileDiff > 0 \/ rankDiff > 0)

ChessLogic_isValidKnightMove(from, to) ==
    LET fileDiff == Abs(to.file - from.file)
        rankDiff == Abs(to.rank - from.rank)
    IN  (fileDiff = 2 /\ rankDiff = 1) \/ (fileDiff = 1 /\ rankDiff = 2)

ChessLogic_isValidPieceMove(board, from, to, piece) ==
    LET fromCoords == ChessLogic_getSquareCoordinates(from)
        toCoords == ChessLogic_getSquareCoordinates(to)
        pieceType == ChessLogic_getPieceType(piece)
        isWhite == ChessLogic_isWhitePiece(piece)
    IN  CASE pieceType = "pawn" ->
                 ChessLogic_isValidPawnMove(board, fromCoords, toCoords, isWhite)
          [] pieceType = "rook" -> ChessLogic_isValidRookMove(board, fromCoords, toCoords)
          [] pieceType = "bishop" -> ChessLogic_isValidBishopMove(board, fromCoords, toCoords)
          [] pieceType = "queen" -> ChessLogic_isValidQueenMove(board, fromCoords, toCoords)
          [] pieceType = "king" -> ChessLogic_isValidKingMove(fromCoords, toCoords)
          [] pieceType = "knight" -> ChessLogic_isValidKnightMove(fromCoords, toCoords)
          [] OTHER -> FALSE

ChessLogic_isValidMove(board, from, to, currentPlayer) ==
    IF ~ChessLogic_isValidSquare(from) \/ ~ChessLogic_isValidSquare(to) THEN FALSE
    ELSE LET piece == At(board, from)
         IN  IF ~Truthy(piece) THEN FALSE
             ELSE IF ChessLogic_getPieceColor(piece) # currentPlayer THEN FALSE
             ELSE LET targetPiece == At(board, to)
                  IN  IF /\ Truthy(targetPiece)
                         /\ ChessLogic_getPieceColor(targetPiece) = currentPlayer
                      THEN FALSE
                      ELSE ChessLogic_isValidPieceMove(board, from, to, piece)

\* The part of the scan of getValidMoves from target number `index' on
\* (target number 8 * file + rank), as the list it pushes.
RECURSIVE ChessLogic_ScanFrom(_, _, _, _)
ChessLogic_ScanFrom(board, square, currentPlayer, index) ==
    IF index >= 64 THEN <<>>
    ELSE LET targetSquare == SquareName(index \div 8, index % 8)
         IN  (IF ChessLogic_isValidMove(board, square, targetSquare, currentPlayer)
              THEN <<targetSquare>> ELSE <<>>)
                 \o ChessLogic_ScanFrom(board, square, currentPlayer, index + 1)

\* getValidMoves whose inner loop stops one rank early.
ChessLogic_getValidMoves_SkipsLastRank(board, square, currentPlayer) ==
    LET all == ChessLogic_ScanFrom(board, square, currentPlayer, 0)
    IN  SelectSeq(all, LAMBDA t : t[2] # "8")

ChessLogic_getValidMoves(board, square, currentPlayer) ==
    ChessLogic_ScanFrom(board, square, currentPlayer, 0)

(***************************************************************************)
(* ChessGame.                                                              *)
(***************************************************************************)
\* initBoard with the white king and queen on each other's squares.
initBoard_KingQueenSwapped ==
    LET whiteBack == <<"wR", "wN", "wB", "wK", "wQ", "wB", "wN", "wR">>
        blackBack == <<"bR", "bN", "bB", "bQ", "bK", "bB", "bN", "bR">>
        keys == {<<Files[f], Digits[r]>> : f \in 1..8, r \in {1, 2, 7, 8}}
    IN  [sq \in keys |->
            LET f == LetterOffset(sq[1]) + 1
            IN  CASE sq[2] = "1" -> <<whiteBack[f]>>
                  [] sq[2] = "2" -> <<"wP">>
                  [] sq[2] = "7" -> <<"bP">>
                  [] sq[2] = "8" -> <<blackBack[f]>>]

\* The board literal of initBoard: a fresh object on every call.
initBoard ==
    LET whiteBack == <<"wR", "wN", "wB", "wQ", "wK", "wB", "wN", "wR">>
        blackBack == <<"bR", "bN", "bB", "bQ", "bK", "bB", "bN", "bR">>
        keys == {<<Files[f], Digits[r]>> : f \in 1..8, r \in {1, 2, 7, 8}}
    IN  [sq \in keys |->
            LET f == LetterOffset(sq[1]) + 1
            IN  CASE sq[2] = "1" -> <<whiteBack[f]>>
                  [] sq[2] = "2" -> <<"wP">>
                  [] sq[2] = "7" -> <<"bP">>
                  [] sq[2] = "8" -> <<blackBack[f]>>]

\* A constructor that keeps one board for all games.
NewChessGame_SharedBoard(gameId, boardRef) ==
    [gameId |-> gameId,
     board |-> 1,
     currentPlayer |-> "white",
     moveHistory |-> <<>>,
     gameOver |-> FALSE,
     winner |-> "null"]

\* new ChessGame(gameId), its board stored under reference boardRef.
NewChessGame(gameId, boardRef) ==
    [gameId |-> gameId,
     board |-> boardRef,
     currentPlayer |-> "white",
     moveHistory |-> <<>>,
     gameOver |-> FALSE,
     winner |-> "null"]

\* The record makeMove pushes onto moveHistory.
MoveRecord(game, board, fromSquare, toSquare, time) ==
    [from |-> fromSquare,
     to |-> toSquare,
     piece |-> board[fromSquare],
     player |-> game.currentPlayer,
     timestamp |-> time]

\* ApplyMove turning every pawn that moves into a queen of its colour.
ApplyMove_QueensPawn(game, board, fromSquare, toSquare, time) ==
    LET piece == IF board[fromSquare] = <<"wP">> THEN <<"wQ">>
                 ELSE IF board[fromSquare] = <<"bP">> THEN <<"bQ">>
                 ELSE board[fromSquare]
    IN  [ok |-> TRUE,
         game |-> [game EXCEPT
                      !.moveHistory = Append(@, MoveRecord(game, board, fromSquare, toSquare, time)),
                      !.currentPlayer = IF @ = "white" THEN "black" ELSE "white"],
         board |-> [sq \in (DOMAIN board \cup {toSquare}) \ {fromSquare} |->
                       IF sq = toSquare THEN piece ELSE board[sq]]]

\* ApplyMove keeping only the latest move in the history.
ApplyMove_ForgetsHistory(game, board, fromSquare, toSquare, time) ==
    [ok |-> TRUE,
     game |-> [game EXCEPT
                  !.moveHistory = <<MoveRecord(game, board, fromSquare, toSquare, time)>>,
                  !.currentPlayer = IF @ = "white" THEN "black" ELSE "white"],
     board |-> [sq \in (DOMAIN board \cup {toSquare}) \ {fromSquare} |->
                   IF sq = toSquare THEN board[fromSquare] ELSE board[sq]]]

\* ApplyMove without `delete this.board[fromSquare]'.
ApplyMove_KeepsOrigin(game, board, fromSquare, toSquare, time) ==
    [ok |-> TRUE,
     game |-> [game EXCEPT
                  !.moveHistory = Append(@, MoveRecord(game, board, fromSquare, toSquare, time)),
                  !.currentPlayer = IF @ = "white" THEN "black" ELSE "white"],
     board |-> [sq \in DOMAIN board \cup {toSquare} |->
                   IF sq = toSquare THEN board[fromSquare] ELSE board[sq]]]

\* ApplyMove without the switch of players.
ApplyMove_KeepsTurn(game, board, fromSquare, toSquare, time) ==
    [ok |-> TRUE,
     game |-> [game EXCEPT
                  !.moveHistory = Append(@, MoveRecord(game, board, fromSquare, toSquare, time))],
     board |-> [sq \in (DOMAIN board \cup {toSquare}) \ {fromSquare} |->
                   IF sq = toSquare THEN board[fromSquare] ELSE board[sq]]]

\* ApplyMove ending the game when a king is taken.
ApplyMove_EndsOnKingCapture(game, board, fromSquare, toSquare, time) ==
    LET kingTaken == getPieceType(At(board, toSquare)) = "king"
    IN  [ok |-> TRUE,
         game |-> [game EXCEPT
                      !.moveHistory = Append(@, MoveRecord(game, board, fromSquare, toSquare, time)),
                      !.currentPlayer = IF @ = "white" THEN "black" ELSE "white",
                      !.gameOver = kingTaken,
                      !.winner = IF kingTaken THEN game.currentPlayer ELSE "null"],
         board |-> [sq \in (DOMAIN board \cup {toSquare}) \ {fromSquare} |->
                       IF sq = toSquare THEN board[fromSquare] ELSE board[sq]]]

\* The second half of makeMove, after the checks: the piece is moved, the move
\* recorded with the time `time' and the turn passed on.
ApplyMove(game, board, fromSquare, toSquare, time) ==
    LET piece == board[fromSquare]
        placed == [sq \in DOMAIN board \cup {toSquare} |->
                      IF sq = toSquare THEN piece ELSE board[sq]]
        moved == [sq \in DOMAIN placed \ {fromSquare} |-> placed[sq]]
        record == MoveRecord(game, board, fromSquare, toSquare, time)
    IN  [ok |-> TRUE,
         game |-> [game EXCEPT
                      !.moveHistory = Append(@, record),
                      !.currentPlayer = IF @ = "white" THEN "black" ELSE "white"],
         board |-> moved]

\* makeMove moving the piece before isValidMove is asked.
makeMove_MovesThenChecks(game, board, fromSquare, toSquare, time) ==
    LET rejected == [ok |-> FALSE, game |-> game, board |-> board]
    IN  IF ~isValidSquare(fromSquare) \/ ~isValidSquare(toSquare) THEN rejected
        ELSE IF ~Truthy(At(board, fromSquare)) THEN rejected
        ELSE IF ~isValidMove(board, fromSquare, toSquare, game.currentPlayer)
        THEN [rejected EXCEPT
                 !.board = ApplyMove(game, board, fromSquare, toSquare, time).board]
        ELSE ApplyMove(game, board, fromSquare, toSquare, time)

\* makeMove without the call of ChessValidator.isValidMove.
makeMove_Unchecked(game, board, fromSquare, toSquare, time) ==
    LET rejected == [ok |-> FALSE, game |-> game, board |-> board]
    IN  IF ~isValidSquare(fromSquare) \/ ~isValidSquare(toSquare) THEN rejected
        ELSE IF ~Truthy(At(board, fromSquare)) THEN rejected
        ELSE ApplyMove(game, board, fromSquare, toSquare, time)

\* game.makeMove(fromSquare, toSquare) at time `time', on the board object
\* `board' the game refers to: the value returned and the game and board after.
makeMove(game, board, fromSquare, toSquare, time) ==
    LET rejected == [ok |-> FALSE, game |-> game, board |-> board]
    IN  IF ~isValidSquare(fromSquare) \/ ~isValidSquare(toSquare) THEN rejected
        ELSE IF ~Truthy(At(board, fromSquare)) THEN rejected
        ELSE IF ~isValidMove(board, fromSquare, toSquare, game.currentPlayer) THEN rejected
        ELSE ApplyMove(game, board, fromSquare, toSquare, time)

\* game.getGameState() of the game object `ref' whose fields are `game': a new
\* object whose board and moveHistory are the game's own board object and
\* array, not copies of them.
getGameState(ref, game) ==
    [gameId |-> game.gameId,
     board |-> [ref |-> game.board],
     currentPlayer |-> game.currentPlayer,
     moveHistory |-> [ref |-> ref],
     gameOver |-> game.gameOver,
     winner |-> game.winner,
     moveCount |-> Len(game.moveHistory)]

\* A serialisation that keeps the references of the state it is given.
Json_KeepsReferences(state, allGames, allBoards) == state

\* JSON.stringify(state), as res.json does, read back by the receiver: the
\* board and the array the state refers to are written out as they are in
\* allBoards and allGames at that moment.
Json(state, allGames, allBoards) ==
    [state EXCEPT
        !.board = [value |-> allBoards[state.board.ref]],
        !.moveHistory = [value |-> allGames[state.moveHistory.ref].moveHistory]]

\* No gameState: null.
NoGameState ==
    [gameId |-> <<>>,
     board |-> [value |-> <<>>],
     currentPlayer |-> "null",
     moveHistory |-> [value |-> <<>>],
     gameOver |-> FALSE,
     winner |-> "null",
     moveCount |-> 0]

(***************************************************************************)
(* TicTacToeLogic (the client's pure game logic).                          *)
(***************************************************************************)
TicTacToeLogic_createInitialState ==
    [board |-> [i \in 1..9 |-> "null"],
     currentPlayer |-> "X",
     winner |-> "null",
     isDraw |-> FALSE,
     isGameOver |-> FALSE,
     moveCount |-> 0]

TicTacToeLogic_isValidMove(board, position) ==
    /\ position >= 0
    /\ position < 9
    /\ board[position + 1] = "null"

\* The loop of checkWinner over its own winPatterns: the mark of the first
\* pattern, from index i on, whose three cells hold one mark.
RECURSIVE TicTacToeLogic_CheckFrom(_, _, _)
TicTacToeLogic_CheckFrom(board, patterns, i) ==
    IF i > Len(patterns) THEN "null"
    ELSE LET a == patterns[i][1] + 1
             b == patterns[i][2] + 1
             c == patterns[i][3] + 1
         IN  IF board[a] # "null" /\ board[a] = board[b] /\ board[a] = board[c]
             THEN board[a]
             ELSE TicTacToeLogic_CheckFrom(board, patterns, i + 1)

\* A checkWinner that does not know the diagonal from cell 2 to cell 6.
TicTacToeLogic_checkWinner_SevenPatterns(board) ==
    LET winPatterns_ ==
            <<<<0, 1, 2>>, <<3, 4, 5>>, <<6, 7, 8>>,
              <<0, 3, 6>>, <<1, 4, 7>>, <<2, 5, 8>>,
              <<0, 4, 8>>>>
    IN  TicTacToeLogic_CheckFrom(board, winPatterns_, 1)

TicTacToeLogic_checkWinner(board) ==
    LET winPatterns_ ==
            <<<<0, 1, 2>>, <<3, 4, 5>>, <<6, 7, 8>>,
              <<0, 3, 6>>, <<1, 4, 7>>, <<2, 5, 8>>,
              <<0, 4, 8>>, <<2, 4, 6>>>>
    IN  TicTacToeLogic_CheckFrom(board, winPatterns_, 1)

\* A makeMove that lets the ninth move be a draw even when it completes a
\* line.
TicTacToeLogic_makeMove_FullBoardDraws(gameState, position) ==
    IF ~TicTacToeLogic_isValidMove(gameState.board, position) \/ gameState.isGameOver
    THEN gameState
    ELSE LET newBoard == [gameState.board EXCEPT ![position + 1] = gameState.currentPlayer]
             newMoveCount == gameState.moveCount + 1
             winner == IF newMoveCount = 9 THEN "null"
                       ELSE TicTacToeLogic_checkWinner(newBoard)
             isDraw == winner = "null" /\ newMoveCount = 9
         IN  [board |-> newBoard,
              currentPlayer |-> IF gameState.currentPlayer = "X" THEN "O" ELSE "X",
              winner |-> winner,
              isDraw |-> isDraw,
              isGameOver |-> winner # "null" \/ isDraw,
              moveCount |-> newMoveCount]

\* TicTacToeLogic.makeMove(gameState, position): the state returned.
TicTacToeLogic_makeMove(gameState, position) ==
    IF ~TicTacToeLogic_isValidMove(gameState.board, position) \/ gameState.isGameOver
    THEN gameState
    ELSE LET newBoard == [gameState.board EXCEPT ![position + 1] = gameState.currentPlayer]
             newMoveCount == gameState.moveCount + 1
             winner == TicTacToeLogic_checkWinner(newBoard)
             isDraw == winner = "null" /\ newMoveCount = 9
         IN  [board |-> newBoard,
              currentPlayer |-> IF gameState.currentPlayer = "X" THEN "O" ELSE "X",
              winner |-> winner,
              isDraw |-> isDraw,
              isGameOver |-> winner # "null" \/ isDraw,
              moveCount |-> newMoveCount]

(***************************************************************************)
(* The requests the model makes.                                           *)
(***************************************************************************)
\* The (from, to) texts requests and AI answers name: the moves of a short
\* game that ends with the capture of a king, a pawn leap, moves onto the
\* mover's own piece (of white and of black), a move from an empty square,
\* and malformed texts (a rank and a file off the board, a string that is too
\* short).
MoveRequests ==
    {<<<<"e", "2">>, <<"e", "4">>>>, <<<<"e", "2">>, <<"e", "5">>>>,
     <<<<"e", "7">>, <<"e", "5">>>>, <<<<"f", "7">>, <<"f", "6">>>>,
     <<<<"d", "7">>, <<"d", "5">>>>, <<<<"e", "4">>, <<"d", "5">>>>,
     <<<<"d", "1">>, <<"h", "5">>>>,
     <<<<"h", "5">>, <<"e", "8">>>>, <<<<"d", "1">>, <<"e", "2">>>>,
     <<<<"d", "1">>, <<"d", "2">>>>, <<<<"f", "8">>, <<"g", "7">>>>,
     <<<<"e", "3">>, <<"e", "4">>>>, <<<<"e", "9">>, <<"e", "4">>>>,
     <<<<"e", "2">>, <<"i", "2">>>>, <<<<"e">>, <<"e", "4">>>>}

\* The game ids requests name: every id the clock can produce, created or not.
RequestIds == {NumberToString(t) : t \in 0..MaxClock}

\* What the AI process answers: a rejected promise, an answer without a
\* usable move, or any move at all.
AiOutcomes ==
    {[kind |-> "rejected", from |-> <<>>, to |-> <<>>],
     [kind |-> "nomove", from |-> <<>>, to |-> <<>>]}
        \cup {[kind |-> "move", from |-> m[1], to |-> m[2]] : m \in MoveRequests}

RECURSIVE SumLen(_, _)
SumLen(gs, i) == IF i = 0 THEN 0 ELSE Len(gs[i].moveHistory) + SumLen(gs, i - 1)

\* The number of moves recorded so far, over all games.
TotalMoves == SumLen(games, Len(games))

\* A response: the endpoint that sent it, its status and error text, and of a
\* success the gameState.gameId and the move made.
Response(op, gameId, status, error, move) ==
    [op |-> op, gameId |-> gameId, status |-> status, error |-> error, move |-> move,
     gameState |-> NoGameState]

\* res.json({success: true, ..., gameState: game.getGameState()}) for the game
\* object `ref', whose fields are `game', with the objects as they are in
\* `allGames' and `allBoards' when the response is sent.
Success(op, move, ref, game, allGames, allBoards) ==
    [Response(op, game.gameId, 200, "none", move) EXCEPT
        !.gameState = Json(getGameState(ref, game), allGames, allBoards)]

(***************************************************************************)
(* The server.                                                             *)
(***************************************************************************)
InitServer ==
    /\ now = 0
    /\ gameStates = <<>>
    /\ games = <<>>
    /\ boards = <<>>
    /\ aiPending = EmptyBag
    /\ observed = <<>>
    /\ lastResp = Response("none", <<>>, 0, "none", <<>>)
    /\ ticTacToeStates = <<>>
    /\ ticTacToeGames = <<>>
    /\ ticTacToePending = EmptyBag

\* The client before a game is created.
NoClient ==
    [gameState |-> NoGameState,
     selectedSquare |-> <<>>,
     validMoves |-> <<>>,
     isLoading |-> FALSE,
     aiThinking |-> FALSE,
     status |-> "Click \"New Game\" to start",
     error |-> "null",
     timers |-> <<>>,
     ticTacToeGameState |-> TicTacToeLogic_createInitialState]

\* No call of the validator from outside the server.
NoValidation ==
    [method |-> "none", board |-> <<>>, from |-> <<>>, to |-> <<>>,
     currentPlayer |-> "white", result |-> FALSE, moves |-> <<>>,
     coords |-> [file |-> 0, rank |-> 0],
     piece |-> <<>>, color |-> "null", type |-> "unknown",
     frontend |-> FALSE, position |-> 0, done |-> TRUE]

Init == InitServer /\ validation = NoValidation /\ client = NoClient

\* A millisecond passes.
Tick ==
    /\ now' = now + 1
    /\ UNCHANGED <<chessVars, lastResp, ticTacToeVars, validation>>

\* gameStates.set(gameId, game)
MapSet(map, gameId, ref) ==
    [id \in DOMAIN map \cup {gameId} |-> IF id = gameId THEN ref ELSE map[id]]

\* POST /api/game/new
NewGame ==
    /\ LET gameId == NumberToString(now)
           boardRef == Len(boards) + 1
           gameRef == Len(games) + 1
       IN  /\ boards' = Append(boards, initBoard)
           /\ games' = Append(games, NewChessGame(gameId, boardRef))
           /\ gameStates' = MapSet(gameStates, gameId, gameRef)
           /\ observed' = Append(observed, <<>>)
           /\ lastResp' = Success("new", <<>>, gameRef, games'[gameRef], games', boards')
    /\ UNCHANGED <<now, aiPending, ticTacToeVars, validation>>

\* GET /api/game/:gameId answering an unknown id with a new game under it.
GetGame_CreatesOnMiss(gameId) ==
    /\ IF gameId \notin DOMAIN gameStates
       THEN /\ boards' = Append(boards, initBoard)
            /\ games' = Append(games, NewChessGame(gameId, Len(boards) + 1))
            /\ gameStates' = MapSet(gameStates, gameId, Len(games) + 1)
            /\ observed' = Append(observed, <<>>)
            /\ lastResp' = Success("get", <<>>, Len(games) + 1,
                                    games'[Len(games) + 1], games', boards')
       ELSE /\ lastResp' = Success("get", <<>>, gameStates[gameId],
                                    games[gameStates[gameId]], games, boards)
            /\ UNCHANGED <<gameStates, games, boards, observed>>
    /\ UNCHANGED <<now, aiPending, ticTacToeVars, validation>>

\* GET /api/game/:gameId
GetGame(gameId) ==
    /\ IF gameId \notin DOMAIN gameStates
       THEN lastResp' = Response("get", <<>>, 404, "Game not found", <<>>)
       ELSE lastResp' = Success("get", <<>>, gameStates[gameId],
                                games[gameStates[gameId]], games, boards)
    /\ UNCHANGED <<now, chessVars, ticTacToeVars, validation>>

\* The game object `ref' after game.makeMove(from, to) returned r; `seen' is
\* the history length the calling request saw at its turn check.
Store(ref, r, seen) ==
    /\ games' = [games EXCEPT ![ref] = r.game]
    /\ boards' = [boards EXCEPT ![games[ref].board] = r.board]
    /\ observed' = IF r.ok THEN [observed EXCEPT ![ref] = Append(@, seen)]
                   ELSE observed

\* The player-move handler without its check of currentPlayer.
PlayerMove_NoTurnCheck(gameId, from, to) ==
    /\ IF gameId \notin DOMAIN gameStates
       THEN /\ lastResp' = Response("move", <<>>, 404, "Game not found", <<>>)
            /\ UNCHANGED <<games, boards, observed>>
       ELSE LET ref == gameStates[gameId]
                game == games[ref]
                r == makeMove(game, boards[game.board], from, to, now)
            IN  /\ Store(ref, r, Len(game.moveHistory))
                /\ lastResp' =
                       IF r.ok
                       THEN Success("move", <<from, to>>, ref, r.game, games', boards')
                       ELSE Response("move", <<>>, 400, "Invalid move", <<>>)
    /\ UNCHANGED <<now, gameStates, aiPending, ticTacToeVars, validation>>

\* POST /api/game/:gameId/move
PlayerMove(gameId, from, to) ==
    /\ IF gameId \notin DOMAIN gameStates
       THEN /\ lastResp' = Response("move", <<>>, 404, "Game not found", <<>>)
            /\ UNCHANGED <<games, boards, observed>>
       ELSE LET ref == gameStates[gameId]
                game == games[ref]
            IN  IF game.currentPlayer # "white"
                THEN /\ lastResp' = Response("move", <<>>, 400, "Not your turn", <<>>)
                     /\ UNCHANGED <<games, boards, observed>>
                ELSE LET r == makeMove(game, boards[game.board], from, to, now)
                     IN  /\ Store(ref, r, Len(game.moveHistory))
                         /\ lastResp' =
                                IF r.ok
                                THEN Success("move", <<from, to>>, ref, r.game,
                                             games', boards')
                                ELSE Response("move", <<>>, 400, "Invalid move", <<>>)
    /\ UNCHANGED <<now, gameStates, aiPending, ticTacToeVars, validation>>

\* POST /api/game/:gameId/ai-move, up to `await getAIMove(game)'
AiMoveStart(gameId) ==
    /\ IF gameId \notin DOMAIN gameStates
       THEN /\ lastResp' = Response("ai-move", <<>>, 404, "Game not found", <<>>)
            /\ UNCHANGED aiPending
       ELSE LET ref == gameStates[gameId]
                game == games[ref]
            IN  IF game.currentPlayer # "black"
                THEN /\ lastResp' = Response("ai-move", <<>>, 400, "Not AI turn", <<>>)
                     /\ UNCHANGED aiPending
                ELSE /\ aiPending' = aiPending (+)
                            SetToBag({[game |-> ref, seen |-> Len(game.moveHistory)]})
                     /\ UNCHANGED lastResp
    /\ UNCHANGED <<now, gameStates, games, boards, observed, ticTacToeVars, validation>>

\* POST /api/game/:gameId/ai-move, from the AI's answer on
AiMoveResume(req, ai) ==
    /\ BagIn(req, aiPending)
    /\ aiPending' = aiPending (-) SetToBag({req})
    /\ LET game == games[req.game]
       IN  CASE ai.kind = "rejected" ->
                  /\ lastResp' = Response("ai-move", <<>>, 500,
                                          "AI service unavailable", <<>>)
                  /\ UNCHANGED <<games, boards, observed>>
             [] ai.kind = "nomove" ->
                  /\ lastResp' = Response("ai-move", <<>>, 500,
                                          "AI failed to generate move", <<>>)
                  /\ UNCHANGED <<games, boards, observed>>
             [] ai.kind = "move" ->
                  LET r == makeMove(game, boards[game.board], ai.from, ai.to, now)
                  IN  /\ Store(req.game, r, req.seen)
                      /\ lastResp' =
                             IF r.ok
                             THEN Success("ai-move", <<ai.from, ai.to>>, req.game,
                                          r.game, games', boards')
                             ELSE Response("ai-move", <<>>, 500,
                                           "AI made invalid move", <<>>)
    /\ UNCHANGED <<now, gameStates, ticTacToeVars, validation>>

(***************************************************************************)
(* TicTacToeGame.                                                          *)
(***************************************************************************)
\* A cell of the board holds "X", "O" or "null"; board[i + 1] is the cell at
\* position i.
winPatterns ==
    <<<<0, 1, 2>>, <<3, 4, 5>>, <<6, 7, 8>>,
      <<0, 3, 6>>, <<1, 4, 7>>, <<2, 5, 8>>,
      <<0, 4, 8>>, <<2, 4, 6>>>>

\* new TicTacToeGame(gameId)
NewTicTacToeGame(gameId) ==
    [gameId |-> gameId,
     board |-> [i \in 1..9 |-> "null"],
     currentPlayer |-> "X",
     winner |-> "null",
     isDraw |-> FALSE,
     isGameOver |-> FALSE,
     moveCount |-> 0]

\* TicTacToeGame.isValidMove(position), for a number `position'.
TicTacToeIsValidMove(game, position) ==
    /\ position >= 0
    /\ position < 9
    /\ game.board[position + 1] = "null"

\* Pattern i of winPatterns is filled with one mark.
PatternWon(board, i) ==
    LET a == winPatterns[i][1] + 1
        b == winPatterns[i][2] + 1
        c == winPatterns[i][3] + 1
    IN  board[a] # "null" /\ board[a] = board[b] /\ board[a] = board[c]

\* TicTacToeGame.checkWinner(): the mark of the first pattern that is won.
checkWinner(board) ==
    IF \E i \in 1..Len(winPatterns) : PatternWon(board, i)
    THEN LET first == CHOOSE i \in 1..Len(winPatterns) :
                          /\ PatternWon(board, i)
                          /\ \A j \in 1..(i - 1) : ~PatternWon(board, j)
         IN  board[winPatterns[first][1] + 1]
    ELSE "null"

\* A makeMove that never finds a draw.
TicTacToeMakeMove_NeverDraws(game, position) ==
    IF ~TicTacToeIsValidMove(game, position) \/ game.isGameOver
    THEN [ok |-> FALSE, game |-> game]
    ELSE LET board == [game.board EXCEPT ![position + 1] = game.currentPlayer]
             moveCount == game.moveCount + 1
             winner == checkWinner(board)
             isDraw == FALSE
         IN  [ok |-> TRUE,
              game |-> [game EXCEPT
                           !.board = board,
                           !.moveCount = moveCount,
                           !.winner = winner,
                           !.isDraw = isDraw,
                           !.isGameOver = winner # "null" \/ isDraw,
                           !.currentPlayer = IF @ = "X" THEN "O" ELSE "X"]]

\* A makeMove that does not look whether the cell is taken.
TicTacToeMakeMove_Overwrites(game, position) ==
    IF ~(position >= 0 /\ position < 9) \/ game.isGameOver
    THEN [ok |-> FALSE, game |-> game]
    ELSE LET board == [game.board EXCEPT ![position + 1] = game.currentPlayer]
             moveCount == game.moveCount + 1
             winner == checkWinner(board)
             isDraw == winner = "null" /\ moveCount = 9
         IN  [ok |-> TRUE,
              game |-> [game EXCEPT
                           !.board = board,
                           !.moveCount = moveCount,
                           !.winner = winner,
                           !.isDraw = isDraw,
                           !.isGameOver = winner # "null" \/ isDraw,
                           !.currentPlayer = IF @ = "X" THEN "O" ELSE "X"]]

\* A makeMove that does not look at isGameOver.
TicTacToeMakeMove_PlaysOn(game, position) ==
    IF ~TicTacToeIsValidMove(game, position)
    THEN [ok |-> FALSE, game |-> game]
    ELSE LET board == [game.board EXCEPT ![position + 1] = game.currentPlayer]
             moveCount == game.moveCount + 1
             winner == checkWinner(board)
             isDraw == winner = "null" /\ moveCount = 9
         IN  [ok |-> TRUE,
              game |-> [game EXCEPT
                           !.board = board,
                           !.moveCount = moveCount,
                           !.winner = winner,
                           !.isDraw = isDraw,
                           !.isGameOver = winner # "null" \/ isDraw,
                           !.currentPlayer = IF @ = "X" THEN "O" ELSE "X"]]

\* A makeMove that passes the turn on when it rejects.
TicTacToeMakeMove_PassesOnReject(game, position) ==
    IF ~TicTacToeIsValidMove(game, position) \/ game.isGameOver
    THEN [ok |-> FALSE,
          game |-> [game EXCEPT !.currentPlayer = IF @ = "X" THEN "O" ELSE "X"]]
    ELSE LET board == [game.board EXCEPT ![position + 1] = game.currentPlayer]
             moveCount == game.moveCount + 1
             winner == checkWinner(board)
             isDraw == winner = "null" /\ moveCount = 9
         IN  [ok |-> TRUE,
              game |-> [game EXCEPT
                           !.board = board,
                           !.moveCount = moveCount,
                           !.winner = winner,
                           !.isDraw = isDraw,
                           !.isGameOver = winner # "null" \/ isDraw,
                           !.currentPlayer = IF @ = "X" THEN "O" ELSE "X"]]

\* game.makeMove(position): the value returned and the game after.
TicTacToeMakeMove(game, position) ==
    IF ~TicTacToeIsValidMove(game, position) \/ game.isGameOver
    THEN [ok |-> FALSE, game |-> game]
    ELSE LET board == [game.board EXCEPT ![position + 1] = game.currentPlayer]
             moveCount == game.moveCount + 1
             winner == checkWinner(board)
             isDraw == winner = "null" /\ moveCount = 9
         IN  [ok |-> TRUE,
              game |-> [game EXCEPT
                           !.board = board,
                           !.moveCount = moveCount,
                           !.winner = winner,
                           !.isDraw = isDraw,
                           !.isGameOver = winner # "null" \/ isDraw,
                           !.currentPlayer = IF @ = "X" THEN "O" ELSE "X"]]

\* The positions requests and AI answers name: the nine cells and a number on
\* either side of them.
PositionRequests == -1..9

\* What the tic-tac-toe AI process answers: a rejected promise, an answer
\* without a number, or any number.
TicTacToeAiOutcomes ==
    {[kind |-> "rejected", move |-> 0], [kind |-> "nomove", move |-> 0]}
        \cup {[kind |-> "move", move |-> p] : p \in PositionRequests}

\* POST /api/tictactoe/new
TicTacToeNewGame ==
    /\ LET gameId == NumberToString(now)
           gameRef == Len(ticTacToeGames) + 1
       IN  /\ ticTacToeGames' = Append(ticTacToeGames, NewTicTacToeGame(gameId))
           /\ ticTacToeStates' = MapSet(ticTacToeStates, gameId, gameRef)
           /\ lastResp' = Response("ttt-new", gameId, 200, "none", <<>>)
    /\ UNCHANGED <<now, chessVars, ticTacToePending, validation>>

\* POST /api/tictactoe/:gameId/move
TicTacToePlayerMove(gameId, position) ==
    /\ IF gameId \notin DOMAIN ticTacToeStates
       THEN /\ lastResp' = Response("ttt-move", <<>>, 404, "Game not found", <<>>)
            /\ UNCHANGED ticTacToeGames
       ELSE LET ref == ticTacToeStates[gameId]
                game == ticTacToeGames[ref]
            IN  IF game.currentPlayer # "X"
                THEN /\ lastResp' = Response("ttt-move", <<>>, 400, "Not your turn", <<>>)
                     /\ UNCHANGED ticTacToeGames
                ELSE IF game.isGameOver
                THEN /\ lastResp' = Response("ttt-move", <<>>, 400,
                                             "Game is already over", <<>>)
                     /\ UNCHANGED ticTacToeGames
                ELSE LET r == TicTacToeMakeMove(game, position)
                     IN  /\ ticTacToeGames' = [ticTacToeGames EXCEPT ![ref] = r.game]
                         /\ lastResp' =
                                IF r.ok
                                THEN Response("ttt-move", gameId, 200, "none", <<position>>)
                                ELSE Response("ttt-move", <<>>, 400, "Invalid move", <<>>)
    /\ UNCHANGED <<now, chessVars, ticTacToeStates, ticTacToePending, validation>>

\* POST /api/tictactoe/:gameId/ai-move, up to `await getTicTacToeAIMove(game)'
TicTacToeAiMoveStart(gameId) ==
    /\ IF gameId \notin DOMAIN ticTacToeStates
       THEN /\ lastResp' = Response("ttt-ai-move", <<>>, 404, "Game not found", <<>>)
            /\ UNCHANGED ticTacToePending
       ELSE LET ref == ticTacToeStates[gameId]
                game == ticTacToeGames[ref]
            IN  IF game.currentPlayer # "O"
                THEN /\ lastResp' = Response("ttt-ai-move", <<>>, 400, "Not AI turn", <<>>)
                     /\ UNCHANGED ticTacToePending
                ELSE IF game.isGameOver
                THEN /\ lastResp' = Response("ttt-ai-move", <<>>, 400,
                                             "Game is already over", <<>>)
                     /\ UNCHANGED ticTacToePending
                ELSE /\ ticTacToePending' = ticTacToePending (+) SetToBag({[game |-> ref]})
                     /\ UNCHANGED lastResp
    /\ UNCHANGED <<now, chessVars, ticTacToeStates, ticTacToeGames, validation>>

\* POST /api/tictactoe/:gameId/ai-move, from the AI's answer on
TicTacToeAiMoveResume(req, ai) ==
    /\ BagIn(req, ticTacToePending)
    /\ ticTacToePending' = ticTacToePending (-) SetToBag({req})
    /\ LET game == ticTacToeGames[req.game]
       IN  CASE ai.kind = "rejected" ->
                  /\ lastResp' = Response("ttt-ai-move", <<>>, 500,
                                          "AI service unavailable", <<>>)
                  /\ UNCHANGED ticTacToeGames
             [] ai.kind = "nomove" ->
                  /\ lastResp' = Response("ttt-ai-move", <<>>, 500,
                                          "AI failed to generate move", <<>>)
                  /\ UNCHANGED ticTacToeGames
             [] ai.kind = "move" ->
                  LET r == TicTacToeMakeMove(game, ai.move)
                  IN  /\ ticTacToeGames' = [ticTacToeGames EXCEPT ![req.game] = r.game]
                      /\ lastResp' =
                             IF r.ok
                             THEN Response("ttt-ai-move", game.gameId, 200, "none",
                                           <<ai.move>>)
                             ELSE Response("ttt-ai-move", <<>>, 500,
                                           "AI made invalid move", <<>>)
    /\ UNCHANGED <<now, chessVars, ticTacToeStates, validation>>

(***************************************************************************)
(* The server under concurrent requests, within the bounds.                *)
(***************************************************************************)
Next ==
    /\ \/ now < MaxClock /\ Tick
       \/ Len(games) < MaxGames /\ NewGame
       \/ \E gameId \in RequestIds : GetGame(gameId)
       \/ \E gameId \in RequestIds, m \in MoveRequests :
              TotalMoves < MaxMoves /\ PlayerMove(gameId, m[1], m[2])
       \/ \E gameId \in RequestIds :
              BagCardinality(aiPending) < MaxPending /\ AiMoveStart(gameId)
       \/ \E req \in BagToSet(aiPending), ai \in AiOutcomes :
              TotalMoves < MaxMoves /\ AiMoveResume(req, ai)
    /\ UNCHANGED client

Spec == Init /\ [][Next]_vars

(***************************************************************************)
(* One game, played to MaxLongMoves moves under concurrent requests.       *)
(***************************************************************************)
NextOneGame ==
    /\ \/ games = <<>> /\ NewGame
       \/ \E gameId \in RequestIds, m \in MoveRequests :
              TotalMoves < MaxLongMoves /\ PlayerMove(gameId, m[1], m[2])
       \/ \E gameId \in RequestIds :
              BagCardinality(aiPending) < MaxPending /\ AiMoveStart(gameId)
       \/ \E req \in BagToSet(aiPending), ai \in AiOutcomes :
              TotalMoves < MaxLongMoves /\ AiMoveResume(req, ai)
    /\ UNCHANGED client

SpecOneGame == Init /\ [][NextOneGame]_vars

(***************************************************************************)
(* One game, and a client that keeps gameStates it was sent.                *)
(***************************************************************************)
\* setGameState(response.data.gameState), of a response to create, a move,
\* get or ai-move.
SetGameState ==
    /\ lastResp.status = 200
    /\ lastResp.op \in {"new", "get", "move", "ai-move"}
    /\ client' = [client EXCEPT !.gameState = lastResp.gameState]
    /\ UNCHANGED <<serverVars, validation>>

\* The number of moves of the game the client watches.
MaxSnapshotMoves == 3

NextSnapshots ==
    \/ /\ \/ games = <<>> /\ NewGame
          \/ \E gameId \in RequestIds : GetGame(gameId)
          \/ \E gameId \in RequestIds, m \in MoveRequests :
                 TotalMoves < MaxSnapshotMoves /\ PlayerMove(gameId, m[1], m[2])
          \/ \E gameId \in RequestIds :
                 BagCardinality(aiPending) < MaxPending /\ AiMoveStart(gameId)
          \/ \E req \in BagToSet(aiPending), ai \in AiOutcomes :
                 TotalMoves < MaxSnapshotMoves /\ AiMoveResume(req, ai)
       /\ UNCHANGED client
    \/ SetGameState

SpecSnapshots == Init /\ [][NextSnapshots]_vars

(***************************************************************************)
(* One tic-tac-toe game under concurrent requests.                         *)
(***************************************************************************)
NextTicTacToe ==
    /\ \/ ticTacToeGames = <<>> /\ TicTacToeNewGame
       \/ \E gameId \in RequestIds, position \in PositionRequests :
              TicTacToePlayerMove(gameId, position)
       \/ \E gameId \in RequestIds :
              BagCardinality(ticTacToePending) < MaxTicTacToePending
                  /\ TicTacToeAiMoveStart(gameId)
       \/ \E req \in BagToSet(ticTacToePending), ai \in TicTacToeAiOutcomes :
              TicTacToeAiMoveResume(req, ai)
    /\ UNCHANGED client

SpecTicTacToe == Init /\ [][NextTicTacToe]_vars

(***************************************************************************)
(* ChessValidator.isValidMove called on a board, for every destination and *)
(* either player.                                                          *)
(***************************************************************************)
Glyphs == {<<WhiteGlyphs[i]>> : i \in 1..6} \cup {<<BlackGlyphs[i]>> : i \in 1..6}

AllSquares == {<<Files[f], Digits[r]>> : f \in 1..8, r \in 1..8}

\* Texts that name no square.
MalformedSquares == {<<"i", "2">>, <<"e", "9">>, <<"e">>}

\* The squares `from' the validator is called with: a corner, a square of
\* each pawn start rank and a square in the middle.
Origins == {<<"a", "1">>, <<"d", "2">>, <<"d", "4">>, <<"d", "7">>}

\* The squares one or two steps (of a king) away from `square': where the
\* other pieces stand.
Near(square) ==
    LET c == getSquareCoordinates(square)
    IN  {sq \in AllSquares \ {square} :
            /\ Abs(getSquareCoordinates(sq).file - c.file) <= 2
            /\ Abs(getSquareCoordinates(sq).rank - c.rank) <= 2}

\* The subsets of S of at most k elements.
RECURSIVE AtMost(_, _)
AtMost(S, k) ==
    IF k = 0 THEN {{}}
    ELSE LET smaller == AtMost(S, k - 1)
         IN  smaller \cup {T \cup {x} : T \in smaller, x \in S}

\* The boards the validator is called on: any piece on `from' and at most
\* MaxOthers pawns of either colour near it.
BoardsAround(from) ==
    {[sq \in {from} \cup DOMAIN others |->
         IF sq = from THEN piece ELSE others[sq]] :
        piece \in Glyphs,
        others \in UNION {[T -> {<<"wP">>, <<"bP">>}] : T \in AtMost(Near(from), MaxOthers)}}

InitValidator ==
    /\ InitServer
    /\ client = NoClient
    /\ \E from \in Origins : \E board \in BoardsAround(from) :
           validation = [NoValidation EXCEPT !.board = board, !.from = from,
                                             !.done = FALSE]

\* ChessValidator.isValidMove(board, from, to, currentPlayer)
Validate(to, currentPlayer) ==
    /\ ~validation.done
    /\ validation' =
           [validation EXCEPT
               !.method = "isValidMove",
               !.to = to,
               !.currentPlayer = currentPlayer,
               !.result = isValidMove(validation.board, validation.from, to, currentPlayer),
               !.done = TRUE]
    /\ UNCHANGED <<serverVars, client>>

NextValidator ==
    \E to \in AllSquares \cup MalformedSquares, currentPlayer \in {"white", "black"} :
        Validate(to, currentPlayer)

SpecValidator == InitValidator /\ [][NextValidator]_vars

(***************************************************************************)
(* ChessValidator.isValidPieceMove, the movement rule of the piece on      *)
(* `from', called on a board for every destination.                        *)
(***************************************************************************)
\* ChessValidator.isValidPieceMove(board, from, to, board[from])
ValidatePiece(to) ==
    /\ ~validation.done
    /\ validation' =
           [validation EXCEPT
               !.method = "isValidPieceMove",
               !.to = to,
               !.result = isValidPieceMove(validation.board, validation.from, to,
                                           validation.board[validation.from]),
               !.done = TRUE]
    /\ UNCHANGED <<serverVars, client>>

NextPieceRules == \E to \in AllSquares : ValidatePiece(to)

SpecPieceRules == InitValidator /\ [][NextPieceRules]_vars

(***************************************************************************)
(* ChessLogic.getValidMoves called on a board, for a square that holds a   *)
(* piece or none and either player.                                        *)
(***************************************************************************)
\* A square no piece of the boards below stands on.
FarSquare == <<"h", "8">>

\* The squares `square' the scan is called with.
ScanOrigins == {<<"a", "1">>, <<"d", "4">>}

\* The squares next to `square'.
Adjacent(square) ==
    LET c == getSquareCoordinates(square)
    IN  {sq \in AllSquares \ {square} :
            /\ Abs(getSquareCoordinates(sq).file - c.file) <= 1
            /\ Abs(getSquareCoordinates(sq).rank - c.rank) <= 1}

\* The boards the scan is called on: any piece on `from' and at most
\* MaxOthers pawns of either colour next to it.
BoardsNextTo(from) ==
    {[sq \in {from} \cup DOMAIN others |->
         IF sq = from THEN piece ELSE others[sq]] :
        piece \in Glyphs,
        others \in UNION {[T -> {<<"wP">>, <<"bP">>}] : T \in AtMost(Adjacent(from), MaxOthers)}}

InitValidMoves ==
    /\ InitServer
    /\ client = NoClient
    /\ \E from \in ScanOrigins : \E board \in BoardsNextTo(from) :
           validation = [NoValidation EXCEPT !.board = board, !.from = from,
                                             !.done = FALSE]

\* ChessLogic.getValidMoves(board, square, currentPlayer)
GetValidMoves(square, currentPlayer) ==
    /\ ~validation.done
    /\ validation' =
           [validation EXCEPT
               !.method = "getValidMoves",
               !.from = square,
               !.currentPlayer = currentPlayer,
               !.moves = ChessLogic_getValidMoves(validation.board, square, currentPlayer),
               !.done = TRUE]
    /\ UNCHANGED <<serverVars, client>>

NextValidMoves ==
    \E square \in DOMAIN validation.board \cup {FarSquare},
       currentPlayer \in {"white", "black"} :
        GetValidMoves(square, currentPlayer)

SpecValidMoves == InitValidMoves /\ [][NextValidMoves]_vars

(***************************************************************************)
(* The conversions between square names and (file, rank) pairs.            *)
(***************************************************************************)
InitSquares ==
    /\ InitServer
    /\ client = NoClient
    /\ validation = [NoValidation EXCEPT !.done = FALSE]

\* ChessValidator.getSquareCoordinates(square), and the name the validator
\* builds from the pair (String.fromCharCode(97 + file) + (rank + 1)).
ParseSquare(square) ==
    /\ ~validation.done
    /\ LET coords == getSquareCoordinates(square)
       IN  validation' =
               [validation EXCEPT
                   !.method = "getSquareCoordinates",
                   !.from = square,
                   !.coords = coords,
                   !.to = SquareName(coords.file, coords.rank),
                   !.done = TRUE]
    /\ UNCHANGED <<serverVars, client>>

\* The name the validator builds from (file, rank), and what isValidSquare
\* says of it.
FormatSquare(file, rank) ==
    /\ ~validation.done
    /\ validation' =
           [validation EXCEPT
               !.method = "formatSquare",
               !.coords = [file |-> file, rank |-> rank],
               !.to = SquareName(file, rank),
               !.result = isValidSquare(SquareName(file, rank)),
               !.done = TRUE]
    /\ UNCHANGED <<serverVars, client>>

NextSquares ==
    \/ \E square \in AllSquares : ParseSquare(square)
    \/ \E file \in 0..7, rank \in 0..7 : FormatSquare(file, rank)

SpecSquares == InitSquares /\ [][NextSquares]_vars

(***************************************************************************)
(* The piece catalog: colour and kind of a string.                         *)
(***************************************************************************)
\* The longest string of glyphs asked about.
MaxGlyphs == 2

RECURSIVE GlyphStrings(_)
GlyphStrings(n) ==
    IF n = 0 THEN {<<>>}
    ELSE GlyphStrings(n - 1)
             \cup {s \o glyph : s \in GlyphStrings(n - 1), glyph \in Glyphs}

InitPieces ==
    /\ InitServer
    /\ client = NoClient
    /\ \E piece \in GlyphStrings(MaxGlyphs) :
           validation = [NoValidation EXCEPT !.piece = piece, !.done = FALSE]

\* ChessValidator.getPieceColor(piece) and ChessValidator.getPieceType(piece).
ClassifyPiece ==
    /\ ~validation.done
    /\ validation' =
           [validation EXCEPT
               !.method = "getPieceType",
               !.color = getPieceColor(validation.piece),
               !.type = getPieceType(validation.piece),
               !.done = TRUE]
    /\ UNCHANGED <<serverVars, client>>

\* ChessLogic.getPieceColor(piece) and ChessLogic.getPieceType(piece).
ChessLogic_ClassifyPiece ==
    /\ ~validation.done
    /\ validation' =
           [validation EXCEPT
               !.method = "ChessLogic.getPieceType",
               !.color = ChessLogic_getPieceColor(validation.piece),
               !.type = ChessLogic_getPieceType(validation.piece),
               !.done = TRUE]
    /\ UNCHANGED <<serverVars, client>>

NextPieces ==
    \/ ClassifyPiece
    \/ ChessLogic_ClassifyPiece

SpecPieces == InitPieces /\ [][NextPieces]_vars

(***************************************************************************)
(* The validator of the server and the validator of the client, asked the  *)
(* same question.                                                          *)
(***************************************************************************)
\* ChessValidator.isValidMove(board, from, to, currentPlayer) and
\* ChessLogic.isValidMove(board, from, to, currentPlayer)
ValidateBoth(to, currentPlayer) ==
    /\ ~validation.done
    /\ validation' =
           [validation EXCEPT
               !.method = "isValidMove, ChessLogic.isValidMove",
               !.to = to,
               !.currentPlayer = currentPlayer,
               !.result = isValidMove(validation.board, validation.from, to, currentPlayer),
               !.frontend = ChessLogic_isValidMove(validation.board, validation.from,
                                                   to, currentPlayer),
               !.done = TRUE]
    /\ UNCHANGED <<serverVars, client>>

NextBothValidators ==
    \E to \in AllSquares \cup MalformedSquares, currentPlayer \in {"white", "black"} :
        ValidateBoth(to, currentPlayer)

SpecBothValidators == InitValidator /\ [][NextBothValidators]_vars

(***************************************************************************)
(* The browser client (App) playing one chess game against the server.     *)
(* A request, the server's handler up to its response or its await, and    *)
(* the client's handling of the response are one step.                     *)
(***************************************************************************)
\* The number of moves of the game the client plays.
MaxClientMoves == 4

\* The squares the user clicks: those the move requests name.
ClickSquares == {m[i] : m \in MoveRequests, i \in 1..2} \cap AllSquares

\* createNewGame()
CreateNewGame ==
    /\ NewGame
    /\ client' = [client EXCEPT
                     !.error = "null",
                     !.selectedSquare = <<>>,
                     !.validMoves = <<>>,
                     !.gameState = lastResp'.gameState,
                     !.status = "Your turn! You are playing as WHITE pieces.",
                     !.isLoading = FALSE]
    /\ UNCHANGED validation

\* makePlayerMove(from, to) once ChessLogic.isValidMove has accepted the
\* move: the request, and the handling of the response.
MakePlayerMove(from, to) ==
    /\ PlayerMove(client.gameState.gameId, from, to)
    /\ client' =
           IF lastResp'.status = 200
           THEN [client EXCEPT
                    !.gameState = lastResp'.gameState,
                    !.selectedSquare = <<>>,
                    !.validMoves = <<>>,
                    !.status = "Move made! AI is thinking...",
                    !.timers = Append(@, lastResp'.gameState.gameId),
                    !.isLoading = FALSE]
           ELSE [client EXCEPT
                    !.error = lastResp'.error,
                    !.selectedSquare = <<>>,
                    !.validMoves = <<>>,
                    !.status = "Try a different move.",
                    !.isLoading = FALSE]

\* handleSquareClick(square)
HandleSquareClick(square) ==
    /\ IF \/ client.gameState = NoGameState
          \/ client.gameState.gameOver
          \/ client.aiThinking
       THEN UNCHANGED <<serverVars, client>>
       ELSE IF client.gameState.currentPlayer # "white"
       THEN /\ client' = [client EXCEPT !.status = "Wait for AI to make a move..."]
            /\ UNCHANGED serverVars
       ELSE IF client.selectedSquare = <<>>
       THEN LET board == client.gameState.board.value
                piece == At(board, square)
            IN  /\ client' =
                       IF Truthy(piece) /\ ChessLogic_isWhitePiece(piece)
                       THEN [client EXCEPT
                                !.selectedSquare = square,
                                !.validMoves =
                                    ChessLogic_getValidMoves(board, square, "white"),
                                !.status = "Selected. Choose a destination square."]
                       ELSE [client EXCEPT
                                !.status = "Select one of your white pieces first."]
                /\ UNCHANGED serverVars
       ELSE IF client.selectedSquare = square
       THEN /\ client' = [client EXCEPT
                             !.selectedSquare = <<>>,
                             !.validMoves = <<>>,
                             !.status = "Selection cleared. Choose a piece to move."]
            /\ UNCHANGED serverVars
       ELSE IF ~ChessLogic_isValidMove(client.gameState.board.value,
                                       client.selectedSquare, square, "white")
       THEN /\ client' = [client EXCEPT
                             !.error = "Invalid move! Please try a different move.",
                             !.selectedSquare = <<>>,
                             !.validMoves = <<>>,
                             !.status = "Invalid move. Select a piece to move."]
            /\ UNCHANGED serverVars
       ELSE MakePlayerMove(client.selectedSquare, square)
    /\ UNCHANGED validation

\* What makeAIMove does with a response that reports an error.
AiMoveFailed(response) ==
    [client EXCEPT
        !.error = response.error,
        !.status = "AI encountered an error. Your turn!",
        !.aiThinking = FALSE]

\* The timer set by makePlayerMove fires: makeAIMove(gameId) up to the
\* response, when the server answers at once, or else up to the server's
\* `await getAIMove(game)'.
MakeAIMoveStart ==
    /\ client.timers # <<>>
    /\ AiMoveStart(Head(client.timers))
    /\ client' =
           IF aiPending' = aiPending
           THEN [AiMoveFailed(lastResp') EXCEPT !.timers = Tail(@)]
           ELSE [client EXCEPT
                    !.aiThinking = TRUE,
                    !.status = "AI is thinking... (tracked in Opik)",
                    !.timers = Tail(@)]
    /\ UNCHANGED validation

\* makeAIMove(gameId) from the AI's answer on: the rest of the server's
\* handler and the handling of its response.
MakeAIMoveResume(req, ai) ==
    /\ AiMoveResume(req, ai)
    /\ client' =
           IF lastResp'.status = 200
           THEN [client EXCEPT
                    !.gameState = lastResp'.gameState,
                    !.status = "AI moved. Your turn!",
                    !.aiThinking = FALSE]
           ELSE AiMoveFailed(lastResp')
    /\ UNCHANGED validation

\* The effect that clears the error after five seconds.
ClearError ==
    /\ client.error # "null"
    /\ client' = [client EXCEPT !.error = "null"]
    /\ UNCHANGED <<serverVars, validation>>

NextClient ==
    \/ games = <<>> /\ CreateNewGame
    \/ \E square \in ClickSquares :
           TotalMoves < MaxClientMoves /\ HandleSquareClick(square)
    \/ MakeAIMoveStart
    \/ \E req \in BagToSet(aiPending), ai \in AiOutcomes :
           TotalMoves < MaxClientMoves /\ MakeAIMoveResume(req, ai)
    \/ ClearError

SpecClient == Init /\ [][NextClient]_vars

(***************************************************************************)
(* A TicTacToeGame object and a TicTacToeLogic state, given the same       *)
(* positions.                                                              *)
(***************************************************************************)
\* new TicTacToeGame(gameId); the client's state is createInitialState().
ConstructTicTacToeGame ==
    /\ ticTacToeGames = <<>>
    /\ ticTacToeGames' = <<NewTicTacToeGame(NumberToString(now))>>
    /\ UNCHANGED <<now, chessVars, lastResp, ticTacToeStates, ticTacToePending,
                   validation, client>>

\* game.makeMove(position) on the object, and
\* TicTacToeLogic.makeMove(gameState, position) on the client's state.
MakeMoveOnBoth(position) ==
    /\ ticTacToeGames # <<>>
    /\ LET r == TicTacToeMakeMove(ticTacToeGames[1], position)
           newState == TicTacToeLogic_makeMove(client.ticTacToeGameState, position)
       IN  /\ ticTacToeGames' = [ticTacToeGames EXCEPT ![1] = r.game]
           /\ client' = [client EXCEPT !.ticTacToeGameState = newState]
           /\ validation' =
                  [validation EXCEPT
                      !.method = "makeMove, TicTacToeLogic.makeMove",
                      !.position = position,
                      !.result = r.ok,
                      !.frontend = newState # client.ticTacToeGameState]
    /\ UNCHANGED <<now, chessVars, lastResp, ticTacToeStates, ticTacToePending>>

NextMakeMove ==
    \/ ConstructTicTacToeGame
    \/ \E position \in PositionRequests : MakeMoveOnBoth(position)

SpecMakeMove == Init /\ [][NextMakeMove]_vars

(***************************************************************************)
(* The browser client starting a new chess game while an earlier one is    *)
(* still being played: the New Game button is disabled only while          *)
(* isLoading is set.                                                       *)
(***************************************************************************)
\* The number of games the user starts, and of moves made in them.
MaxClientGames == 2
MaxNewGameMoves == 2

\* The squares the user clicks in these games, and what the AI answers: a
\* rejected promise, a legal move and a move that is refused.
NewGameClicks == {<<"e", "2">>, <<"e", "4">>, <<"d", "2">>}
NewGameAiOutcomes ==
    {[kind |-> "rejected", from |-> <<>>, to |-> <<>>],
     [kind |-> "move", from |-> <<"e", "7">>, to |-> <<"e", "5">>],
     [kind |-> "move", from |-> <<"e", "2">>, to |-> <<"e", "5">>]}

NextNewGame ==
    \/ Len(games) < MaxClientGames /\ ~client.isLoading /\ CreateNewGame
    \/ now < MaxClock /\ Tick /\ UNCHANGED client
    \/ \E square \in NewGameClicks :
           TotalMoves < MaxNewGameMoves /\ HandleSquareClick(square)
    \/ MakeAIMoveStart
    \/ \E req \in BagToSet(aiPending), ai \in NewGameAiOutcomes :
           TotalMoves < MaxNewGameMoves /\ MakeAIMoveResume(req, ai)

SpecNewGame == Init /\ [][NextNewGame]_vars

(***************************************************************************)
(* Properties.                                                             *)
(***************************************************************************)
GameRefs == 1..Len(games)

\* The board object of game ref, before and after a step.
BoardOf(ref) == boards[games[ref].board]
BoardAfter(ref) == boards'[games'[ref].board]

\* A move was recorded in game ref in this step.
MoveRecorded(ref) == Len(games'[ref].moveHistory) = Len(games[ref].moveHistory) + 1

PieceCount(board) == Cardinality(DOMAIN board)

\* C1: a move request answered 'Invalid move' or 'AI made invalid move'
\* (makeMove returned false) leaves every game (currentPlayer, moveHistory)
\* and every board as it was.
C1_RejectedMoveChangesNothing ==
    [][lastResp'.error \in {"Invalid move", "AI made invalid move"}
          => UNCHANGED <<games, boards, gameStates>>]_vars

\* A move was rejected in a game in which moves had been made.
C1_Witness ==
    /\ lastResp.error = "Invalid move"
    /\ \E ref \in GameRefs : Len(games[ref].moveHistory) >= 2

\* C2: a successful makeMove(from, to) puts the piece that was on from onto
\* to, empties from, and leaves every other square as it was (a piece that
\* stood on to is gone).
C2_MoveRelocatesOnePiece ==
    [][\A ref \in GameRefs :
          MoveRecorded(ref) =>
              LET from == lastResp'.move[1]
                  to == lastResp'.move[2]
                  before == BoardOf(ref)
                  after == BoardAfter(ref)
              IN  /\ from \in DOMAIN before
                  /\ to \in DOMAIN after
                  /\ after[to] = before[from]
                  /\ from \notin DOMAIN after
                  /\ \A sq \in (DOMAIN before \cup DOMAIN after) \ {from, to} :
                         /\ sq \in DOMAIN before
                         /\ sq \in DOMAIN after
                         /\ after[sq] = before[sq]]_vars

\* The pawn on e4 has just taken the pawn on d5.
C2_Witness ==
    /\ lastResp.status = 200
    /\ lastResp.move = <<<<"e", "4">>, <<"d", "5">>>>
    /\ \E ref \in GameRefs :
           /\ PieceCount(BoardOf(ref)) = 31
           /\ At(BoardOf(ref), <<"d", "5">>) = <<"wP">>
           /\ At(BoardOf(ref), <<"e", "4">>) = Undefined

\* C3: in every game the moves are made by white and black in turn, white
\* first, and currentPlayer is white iff the number of recorded moves is even.
C3_TurnsAlternate ==
    \A ref \in GameRefs :
        LET game == games[ref]
        IN  /\ game.currentPlayer =
                   (IF Len(game.moveHistory) % 2 = 0 THEN "white" ELSE "black")
            /\ \A i \in 1..Len(game.moveHistory) :
                   game.moveHistory[i].player = (IF i % 2 = 1 THEN "white" ELSE "black")

\* After e2-e4 and e7-e5 the turn is white's and the history has two moves.
C3_Witness ==
    \E ref \in GameRefs :
        LET game == games[ref]
        IN  /\ Len(game.moveHistory) = 2
            /\ game.moveHistory[1].from = <<"e", "2">>
            /\ game.moveHistory[1].to = <<"e", "4">>
            /\ game.moveHistory[2].from = <<"e", "7">>
            /\ game.moveHistory[2].to = <<"e", "5">>
            /\ game.currentPlayer = "white"

\* C4: a player-move request for a game whose currentPlayer is black is
\* answered 'Not your turn', and an ai-move request for a game whose
\* currentPlayer is white is answered 'Not AI turn', whatever squares are
\* named; neither changes a game, a board, the registry or the suspended
\* requests.
C4_OutOfTurnRefused ==
    [][/\ \A gameId \in RequestIds, m \in MoveRequests :
            ( /\ gameId \in DOMAIN gameStates
              /\ games[gameStates[gameId]].currentPlayer = "black"
              /\ PlayerMove(gameId, m[1], m[2]) )
            => /\ lastResp' = Response("move", <<>>, 400, "Not your turn", <<>>)
               /\ UNCHANGED <<games, boards, gameStates, aiPending>>
       /\ \A gameId \in RequestIds :
            ( /\ gameId \in DOMAIN gameStates
              /\ games[gameStates[gameId]].currentPlayer = "white"
              /\ AiMoveStart(gameId) )
            => /\ lastResp' = Response("ai-move", <<>>, 400, "Not AI turn", <<>>)
               /\ UNCHANGED <<games, boards, gameStates, aiPending>>]_vars

\* The player asked for a second move before the opponent had moved.
C4_Witness ==
    /\ lastResp.error = "Not your turn"
    /\ \E gameId \in DOMAIN gameStates :
           /\ games[gameStates[gameId]].currentPlayer = "black"
           /\ Len(games[gameStates[gameId]].moveHistory) = 1

\* C5: of the requests that passed their turn check on the same turn of a
\* game (the same history length), at most one records a move: no two moves
\* of a game were made by requests that had seen the same history length.
C5_OneMovePerObservedTurn ==
    \A ref \in GameRefs :
        \A i \in 1..Len(observed[ref]), j \in 1..Len(observed[ref]) :
            i # j => observed[ref][i] # observed[ref][j]

\* C6: a move is recorded by the ai-move endpoint only if isValidMove holds
\* for the AI's (from, to) on the game's board and currentPlayer as they are
\* when it is applied; an answer 'AI made invalid move' leaves every game and
\* board as it was.
C6_AiMovePassesTheGate ==
    [][\A ref \in GameRefs :
          /\ (MoveRecorded(ref) /\ lastResp'.op = "ai-move")
                 => isValidMove(BoardOf(ref), lastResp'.move[1], lastResp'.move[2],
                                games[ref].currentPlayer)
          /\ lastResp'.error = "AI made invalid move"
                 => UNCHANGED <<games, boards, gameStates>>]_vars

\* The ai-move endpoint has just recorded black's answer to white's move.
C6_Witness ==
    /\ lastResp.op = "ai-move"
    /\ lastResp.status = 200
    /\ \E ref \in GameRefs :
           LET history == games[ref].moveHistory
           IN  /\ Len(history) = 2
               /\ history[2].player = "black"
               /\ <<history[2].from, history[2].to>> = lastResp.move

\* C7: the ids of the games constructed are pairwise different, and every
\* game constructed is still the one the registry holds under its id.
C7_FreshIds ==
    /\ \A i \in GameRefs, j \in GameRefs : i # j => games[i].gameId # games[j].gameId
    /\ \A i \in GameRefs :
           /\ games[i].gameId \in DOMAIN gameStates
           /\ gameStates[games[i].gameId] = i

\* Game ref or its board changes in this step.
Changed(ref) ==
    \/ games'[ref] # games[ref]
    \/ boards'[games[ref].board] # boards[games[ref].board]

\* C8: no two games share a board object, and a step changes at most one
\* game: the one the request names, whose id the response carries; every
\* other game keeps its board, currentPlayer and moveHistory.
C8_SessionsIndependent ==
    /\ [](\A ref \in GameRefs, other \in GameRefs :
              ref # other => games[ref].board # games[other].board)
    /\ [][\A ref \in GameRefs :
              Changed(ref) =>
                  /\ games[ref].gameId = lastResp'.gameId
                  /\ \A other \in GameRefs \ {ref} : ~Changed(other)]_vars

\* Two games are registered; a move was just made in one, none in the other.
C8_Witness ==
    /\ lastResp.status = 200
    /\ lastResp.op = "move"
    /\ \E id \in DOMAIN gameStates, other \in DOMAIN gameStates :
           /\ id # other
           /\ id = lastResp.gameId
           /\ Len(games[gameStates[id]].moveHistory) = 1
           /\ Len(games[gameStates[other]].moveHistory) = 0
           /\ PieceCount(boards[games[gameStates[other]].board]) = 32

\* The kinds of the pieces of a back rank, from file a to file h.
BackRank == <<"rook", "knight", "bishop", "queen", "king", "bishop", "knight", "rook">>

\* The standard starting position.
StandardPosition(board) ==
    /\ PieceCount(board) = 32
    /\ \A f \in 1..8 :
           /\ At(board, <<Files[f], "2">>) = <<"wP">>
           /\ At(board, <<Files[f], "7">>) = <<"bP">>
           /\ getPieceColor(At(board, <<Files[f], "1">>)) = "white"
           /\ getPieceType(At(board, <<Files[f], "1">>)) = BackRank[f]
           /\ getPieceColor(At(board, <<Files[f], "8">>)) = "black"
           /\ getPieceType(At(board, <<Files[f], "8">>)) = BackRank[f]
           /\ \A r \in 3..6 : <<Files[f], Digits[r]>> \notin DOMAIN board

\* C9: a game in which no move was made, and so every game just created, is
\* in the standard starting position with white to move, an empty history,
\* gameOver false and winner null.
C9_NewGameIsStandard ==
    /\ \A ref \in GameRefs :
           Len(games[ref].moveHistory) = 0 =>
               /\ StandardPosition(BoardOf(ref))
               /\ games[ref].currentPlayer = "white"
               /\ games[ref].gameOver = FALSE
               /\ games[ref].winner = "null"
    /\ lastResp.op = "new" =>
           /\ lastResp.gameId \in DOMAIN gameStates
           /\ games[gameStates[lastResp.gameId]].gameId = lastResp.gameId
           /\ games[gameStates[lastResp.gameId]].moveHistory = <<>>

\* A second game was just created beside one in which a move was made.
C9_Witness ==
    /\ lastResp.op = "new"
    /\ Len(games) = 2
    /\ Len(games[1].moveHistory) = 1
    /\ StandardPosition(BoardOf(2))

\* C10: no game ends: gameOver is false and winner is null in every game.
C10_NeverTerminates ==
    \A ref \in GameRefs :
        /\ games[ref].gameOver = FALSE
        /\ games[ref].winner = "null"

\* The black king was taken on e8 and black has made a move since.
C10_Witness ==
    \E ref \in GameRefs :
        LET history == games[ref].moveHistory
        IN  /\ \A sq \in DOMAIN BoardOf(ref) : BoardOf(ref)[sq] # <<"bK">>
            /\ Len(history) = 6
            /\ history[5].to = <<"e", "8">>
            /\ history[6].player = "black"
            /\ lastResp.status = 200

TicTacToeRefs == 1..Len(ticTacToeGames)

\* C11: a tic-tac-toe player-move request for a game whose isGameOver is true
\* is answered 'Game is already over', whichever side made the last move
\* (whatever currentPlayer is), and changes no game.
C11_TerminatedBeforeTurn ==
    [][\A gameId \in RequestIds, position \in PositionRequests :
          ( /\ gameId \in DOMAIN ticTacToeStates
            /\ ticTacToeGames[ticTacToeStates[gameId]].isGameOver
            /\ TicTacToePlayerMove(gameId, position) )
          => /\ lastResp' = Response("ttt-move", <<>>, 400, "Game is already over", <<>>)
             /\ UNCHANGED ticTacToeGames]_vars

\* The check of the claim's list that a player-move request (from, to) fails
\* first on `game' with board `board', in the order the handler and makeMove
\* make their checks; "none" when the move is made.
FailedCheck(game, board, from, to) ==
    IF game.currentPlayer # "white" THEN "OutOfTurn"
    ELSE IF ~isValidSquare(from) \/ ~isValidSquare(to) THEN "InvalidSquare"
    ELSE IF ~Truthy(At(board, from)) THEN "EmptyOrigin"
    ELSE IF getPieceColor(At(board, from)) # game.currentPlayer THEN "OutOfTurn"
    ELSE IF ~isValidMove(board, from, to, game.currentPlayer) THEN "IllegalMove"
    ELSE "none"

\* The error texts of the player-move endpoint.
MoveErrors == {"Not your turn", "Invalid move"}

\* C12: the error text of a rejected player move tells which check failed:
\* two requests for a game that can be answered with the same error text fail
\* the same check (InvalidSquare, EmptyOrigin, OutOfTurn or IllegalMove).
C12_DistinctReasons ==
    \A gameId \in DOMAIN gameStates, m1 \in MoveRequests, m2 \in MoveRequests,
       error \in MoveErrors :
        LET game == games[gameStates[gameId]]
            board == boards[game.board]
        IN  ( /\ ENABLED (PlayerMove(gameId, m1[1], m1[2]) /\ lastResp'.error = error)
              /\ ENABLED (PlayerMove(gameId, m2[1], m2[2]) /\ lastResp'.error = error) )
            => FailedCheck(game, board, m1[1], m1[2]) = FailedCheck(game, board, m2[1], m2[2])

\* C13: a get, player-move or ai-move request that names an id the registry
\* gameStates does not hold is answered 404 'Game not found'; it adds no game
\* to the registry, constructs none, and changes no game, board or suspended
\* request.
C13_UnknownIdNotFound ==
    [][\A gameId \in RequestIds :
          gameId \notin DOMAIN gameStates =>
              /\ GetGame(gameId) =>
                     /\ lastResp' = Response("get", <<>>, 404, "Game not found", <<>>)
                     /\ UNCHANGED chessVars
              /\ \A m \in MoveRequests :
                     PlayerMove(gameId, m[1], m[2]) =>
                         /\ lastResp' = Response("move", <<>>, 404, "Game not found", <<>>)
                         /\ UNCHANGED chessVars
              /\ AiMoveStart(gameId) =>
                     /\ lastResp' = Response("ai-move", <<>>, 404, "Game not found", <<>>)
                     /\ UNCHANGED chessVars]_vars

\* A get request named an unknown id while a game with a recorded move is
\* registered under another id.
C13_Witness ==
    /\ lastResp = Response("get", <<>>, 404, "Game not found", <<>>)
    /\ \E gameId \in DOMAIN gameStates :
           Len(games[gameStates[gameId]].moveHistory) = 1
    /\ \E gameId \in RequestIds : gameId \notin DOMAIN gameStates

\* The colour and the kind of a chess piece, by its glyph.
WhitePieces == {<<WhiteGlyphs[i]>> : i \in 1..6}
BlackPieces == {<<BlackGlyphs[i]>> : i \in 1..6}
ColourOf(piece) == IF piece \in WhitePieces THEN "white" ELSE "black"
KindOf(piece) ==
    <<"king", "queen", "rook", "bishop", "knight", "pawn">>[
        CHOOSE i \in 1..6 : piece \in {<<WhiteGlyphs[i]>>, <<BlackGlyphs[i]>>}]

\* isValidMove was called (with a piece on validation.from).
Validated == validation.method = "isValidMove"

\* The piece on `from' of the call, and what is on `to'.
MovedPiece == validation.board[validation.from]
TargetPiece == At(validation.board, validation.to)

\* C14: isValidMove(board, from, to, mover) is false when the piece on from
\* is not of colour mover, whatever the board and the destination.
C14_WrongColourIsIllegal ==
    (Validated /\ ColourOf(MovedPiece) # validation.currentPlayer)
        => validation.result = FALSE

\* The white rook alone on a1 was asked to go to a8 for black.
C14_Witness ==
    /\ Validated
    /\ validation.board = [sq \in {<<"a", "1">>} |-> <<"wR">>]
    /\ validation.from = <<"a", "1">>
    /\ validation.to = <<"a", "8">>
    /\ validation.currentPlayer = "black"
    /\ validation.result = FALSE

\* The squares of a board that hold a piece of a colour.
SquaresOf(board, colour) == {sq \in DOMAIN board : ColourOf(board[sq]) = colour}

\* C15: isValidMove is false for every move of the player to move from one
\* of its pieces onto another of its pieces, and a step that records a move
\* leaves the mover (currentPlayer before the step) with at least as many
\* pieces as before.
C15_NoSelfCapture ==
    /\ [](\A ref \in GameRefs :
              LET own == SquaresOf(BoardOf(ref), games[ref].currentPlayer)
              IN  \A from \in own, to \in own :
                      ~isValidMove(BoardOf(ref), from, to, games[ref].currentPlayer))
    /\ [][\A ref \in GameRefs :
              MoveRecorded(ref) =>
                  Cardinality(SquaresOf(BoardAfter(ref), games[ref].currentPlayer))
                      >= Cardinality(SquaresOf(BoardOf(ref), games[ref].currentPlayer))]_vars

\* White has taken a pawn and still has sixteen pieces; it is white's turn
\* again, and a request to move the queen from d1 onto the pawn on d2 would
\* be answered 'Invalid move'.
C15_Witness ==
    \E gameId \in DOMAIN gameStates :
        LET game == games[gameStates[gameId]]
            board == boards[game.board]
        IN  /\ Len(game.moveHistory) = 4
            /\ game.currentPlayer = "white"
            /\ Cardinality(SquaresOf(board, "white")) = 16
            /\ Cardinality(SquaresOf(board, "black")) = 15
            /\ At(board, <<"d", "1">>) = <<"wQ">>
            /\ At(board, <<"d", "2">>) = <<"wP">>
            /\ ENABLED (PlayerMove(gameId, <<"d", "1">>, <<"d", "2">>)
                            /\ lastResp'.error = "Invalid move")

\* Zero-based file and rank of a square, and the square of a file and rank.
FileIndex(square) == (CHOOSE f \in 1..8 : Files[f] = square[1]) - 1
RankIndex(square) == (CHOOSE r \in 1..8 : Digits[r] = square[2]) - 1
SquareAt(file, rank) == <<Files[file + 1], Digits[rank + 1]>>

\* The deltas of the validated call.
Df == FileIndex(validation.to) - FileIndex(validation.from)
Dr == RankIndex(validation.to) - RankIndex(validation.from)

\* The validator was called for the player who owns the piece on `from', a
\* piece of kind `kind', with a destination on the board.
ValidatedFor(kind) ==
    /\ Validated
    /\ validation.to \in AllSquares
    /\ KindOf(MovedPiece) = kind
    /\ ColourOf(MovedPiece) = validation.currentPlayer

Empty(square) == square \notin DOMAIN validation.board

\* The pawn rule: one step forward onto an empty square, two steps forward
\* from the start rank over an empty square onto an empty square, or one step
\* diagonally forward onto a piece of the other colour.
PawnRule ==
    LET white == ColourOf(MovedPiece) = "white"
        direction == IF white THEN 1 ELSE -1
        startRank == IF white THEN 1 ELSE 6
        fromFile == FileIndex(validation.from)
        fromRank == RankIndex(validation.from)
    IN  \/ Df = 0 /\ Dr = direction /\ Empty(validation.to)
        \/ /\ Df = 0
           /\ Dr = 2 * direction
           /\ fromRank = startRank
           /\ Empty(SquareAt(fromFile, fromRank + direction))
           /\ Empty(validation.to)
        \/ /\ Abs(Df) = 1
           /\ Dr = direction
           /\ ~Empty(validation.to)
           /\ ColourOf(TargetPiece) # ColourOf(MovedPiece)

\* C16: a pawn move is legal iff it is a single step forward onto an empty
\* square, a double step from the start rank (rank index 1 for white, 6 for
\* black) with the passed and the destination square empty, or a diagonal
\* step forward onto a piece of the other colour; every other pawn move
\* (backward, sideways, a capture straight ahead, a leap) is illegal.
C16_PawnRule ==
    ValidatedFor("pawn") => (validation.result <=> PawnRule)

\* The white pawn on d2 was refused the double step to d4 because a piece
\* stands on d3.
C16_Witness ==
    /\ ValidatedFor("pawn")
    /\ validation.from = <<"d", "2">>
    /\ MovedPiece = <<"wP">>
    /\ DOMAIN validation.board = {<<"d", "2">>, <<"d", "3">>}
    /\ validation.to = <<"d", "4">>
    /\ validation.result = FALSE

\* The movement rule of the piece on `from', a piece of kind `kind', was
\* applied.
RuleApplied(kind) ==
    /\ validation.method = "isValidPieceMove"
    /\ KindOf(MovedPiece) = kind

\* The number of steps from `from' to `to' along a rank, file or diagonal.
Distance == IF Abs(Df) > Abs(Dr) THEN Abs(Df) ELSE Abs(Dr)

Sign(x) == IF x > 0 THEN 1 ELSE IF x < 0 THEN -1 ELSE 0

\* Every square strictly between `from' and `to' is empty (for `to' on a
\* rank, file or diagonal of `from').
PathEmpty ==
    \A k \in 1..(Distance - 1) :
        Empty(SquareAt(FileIndex(validation.from) + k * Sign(Df),
                       RankIndex(validation.from) + k * Sign(Dr)))

WithPiece(kind) ==
    LET white == ColourOf(MovedPiece) = "white"
        glyph == IF kind = "rook" THEN (IF white THEN <<"wR">> ELSE <<"bR">>)
                 ELSE (IF white THEN <<"wB">> ELSE <<"bB">>)
    IN  [validation.board EXCEPT ![validation.from] = glyph]

\* isValidMove for the same from, to and player with that piece on `from'.
LegalFor(kind) ==
    isValidMove(WithPiece(kind), validation.from, validation.to, validation.currentPlayer)

\* C19: a queen move is legal iff the same (board, from, to) is legal for a
\* rook or for a bishop standing on from; a legal queen move runs along a
\* rank, file or diagonal.
C19_QueenIsRookOrBishop ==
    (Validated /\ KindOf(MovedPiece) = "queen") =>
        /\ validation.result <=> (LegalFor("rook") \/ LegalFor("bishop"))
        /\ validation.result =>
               (Df = 0 \/ Dr = 0 \/ Abs(Df) = Abs(Dr)) /\ PathEmpty

\* The white queen alone on d4 was allowed to go to g7, a move that is legal
\* for a bishop and not for a rook.
C19_Witness ==
    /\ Validated
    /\ validation.board = [sq \in {<<"d", "4">>} |-> <<"wQ">>]
    /\ validation.to = <<"g", "7">>
    /\ validation.currentPlayer = "white"
    /\ validation.result = TRUE
    /\ LegalFor("bishop")
    /\ ~LegalFor("rook")

\* The board of the call without the pieces that stand neither on `from' nor
\* on `to'.
FromAndToOnly ==
    [sq \in DOMAIN validation.board \cap {validation.from, validation.to} |->
        validation.board[sq]]

\* C20: a knight move to a square that is empty or holds a piece of the other
\* colour is legal iff (|df|, |dr|) is (1, 2) or (2, 1), and the answer is the
\* same with every other square emptied: a knight is never obstructed.
C20_KnightRule ==
    ( /\ ValidatedFor("knight")
      /\ (Empty(validation.to) \/ ColourOf(TargetPiece) # validation.currentPlayer) )
    => /\ validation.result <=>
              (<<Abs(Df), Abs(Dr)>> \in {<<1, 2>>, <<2, 1>>})
       /\ validation.result =
              isValidMove(FromAndToOnly, validation.from, validation.to,
                          validation.currentPlayer)

\* The white knight on d4 was allowed to jump to e6 past the pawn on e5.
C20_Witness ==
    /\ ValidatedFor("knight")
    /\ validation.from = <<"d", "4">>
    /\ MovedPiece = <<"wN">>
    /\ DOMAIN validation.board = {<<"d", "4">>, <<"e", "5">>}
    /\ validation.to = <<"e", "6">>
    /\ validation.result = TRUE

\* C21: a king move to a square that is empty or holds a piece of the other
\* colour is legal iff max(|df|, |dr|) = 1, whatever else stands on the board
\* (an attacker of the destination included); a move of two files is illegal.
C21_KingRule ==
    ( /\ ValidatedFor("king")
      /\ (Empty(validation.to) \/ ColourOf(TargetPiece) # validation.currentPlayer) )
    => /\ validation.result <=> (Distance = 1)
       /\ validation.result =
              isValidMove(FromAndToOnly, validation.from, validation.to,
                          validation.currentPlayer)

\* The white king on d4 was allowed to step to d5, a square the black pawn on
\* e6 attacks.
C21_Witness ==
    /\ ValidatedFor("king")
    /\ validation.board =
           [sq \in {<<"d", "4">>, <<"e", "6">>} |->
               IF sq = <<"d", "4">> THEN <<"wK">> ELSE <<"bP">>]
    /\ validation.from = <<"d", "4">>
    /\ validation.to = <<"d", "5">>
    /\ validation.result = TRUE

\* The elements of a sequence.
Range(seq) == {seq[k] : k \in 1..Len(seq)}

\* C22: getValidMoves(board, square, mover) lists exactly the squares t of
\* the 64 for which isValidMove(board, square, t, mover) holds, each once; the
\* list is empty when square is empty or holds a piece of the other colour.
C22_ValidMovesExact ==
    validation.method = "getValidMoves" =>
        /\ Range(validation.moves) =
               {t \in AllSquares :
                   ChessLogic_isValidMove(validation.board, validation.from, t,
                                          validation.currentPlayer)}
        /\ Cardinality(Range(validation.moves)) = Len(validation.moves)
        /\ ( \/ validation.from \notin DOMAIN validation.board
             \/ ColourOf(validation.board[validation.from]) # validation.currentPlayer )
           => validation.moves = <<>>

\* The white rook on a1, with a black pawn on a2, was given a2 and the seven
\* squares of the first rank.
C22_Witness ==
    /\ validation.method = "getValidMoves"
    /\ validation.board =
           [sq \in {<<"a", "1">>, <<"a", "2">>} |->
               IF sq = <<"a", "1">> THEN <<"wR">> ELSE <<"bP">>]
    /\ validation.from = <<"a", "1">>
    /\ validation.currentPlayer = "white"
    /\ Len(validation.moves) = 8
    /\ <<"a", "2">> \in Range(validation.moves)
    /\ <<"h", "1">> \in Range(validation.moves)

\* C23: for each of the 64 squares, the name built from the pair that
\* getSquareCoordinates gives is the square's name again, the pair being
\* zero-based (file 0 is a, rank 0 is 1); and the name built from every pair
\* of 0..7 x 0..7 is a square that isValidSquare accepts.
C23_SquareRoundTrip ==
    /\ validation.method = "getSquareCoordinates" =>
           /\ validation.to = validation.from
           /\ validation.coords.file \in 0..7
           /\ validation.coords.rank \in 0..7
           /\ Files[validation.coords.file + 1] = validation.from[1]
           /\ Digits[validation.coords.rank + 1] = validation.from[2]
    /\ validation.method = "formatSquare" =>
           /\ validation.result = TRUE
           /\ validation.to \in AllSquares
           /\ getSquareCoordinates(validation.to) = validation.coords

\* h8 was converted to (7, 7) and back to h8.
C23_Witness ==
    /\ validation.method = "getSquareCoordinates"
    /\ validation.from = <<"h", "8">>
    /\ validation.coords = [file |-> 7, rank |-> 7]
    /\ validation.to = <<"h", "8">>

Classified == validation.method \in {"getPieceType", "ChessLogic.getPieceType"}

\* C24: the catalog has exactly twelve entries: a string has a colour (white
\* or black) and a kind exactly when it is one of the twelve glyphs; every
\* other string, the empty one and those of two glyphs included, has colour
\* null and type unknown, so the colour is null iff the type is unknown.
C24_TwelveEntries ==
    Classified =>
        /\ validation.piece \in Glyphs =>
               /\ validation.color \in {"white", "black"}
               /\ validation.type # "unknown"
        /\ validation.piece \notin Glyphs =>
               /\ validation.color = "null"
               /\ validation.type = "unknown"
        /\ validation.color # "null" <=> validation.type # "unknown"

\* The number of squares of board that hold glyph.
GlyphCount(board, glyph) == Cardinality({sq \in DOMAIN board : board[sq] = glyph})

\* The glyph a move onto square `to' of board takes off the board, if any.
Taken(board, to, glyph) == IF At(board, to) = glyph THEN 1 ELSE 0

\* C25: pieces are only relocated or captured. On every board each square
\* holds one of the twelve glyphs and no glyph occurs more often than in the
\* starting position; a successful move puts the glyph that stood on from
\* onto to unchanged, takes exactly the glyph that stood on to off the board
\* and changes the count of no other glyph, so the number of pieces never
\* grows and falls by one iff to was occupied; any other step leaves the
\* boards as they are.
C25_RelocatedOrCaptured ==
    /\ [](\A ref \in GameRefs :
              /\ DOMAIN BoardOf(ref) \subseteq AllSquares
              /\ \A sq \in DOMAIN BoardOf(ref) : BoardOf(ref)[sq] \in Glyphs
              /\ \A glyph \in Glyphs :
                     GlyphCount(BoardOf(ref), glyph) <= GlyphCount(initBoard, glyph))
    /\ [][\A ref \in GameRefs :
            LET before == BoardOf(ref)
                after == BoardAfter(ref)
            IN  IF MoveRecorded(ref)
                THEN LET from == lastResp'.move[1]
                         to == lastResp'.move[2]
                     IN  /\ after[to] = before[from]
                         /\ \A glyph \in Glyphs :
                                GlyphCount(after, glyph) =
                                    GlyphCount(before, glyph) - Taken(before, to, glyph)
                         /\ PieceCount(after) <= PieceCount(before)
                         /\ PieceCount(after) = PieceCount(before) - 1
                                <=> to \in DOMAIN before
                         /\ PieceCount(after) = PieceCount(before)
                                <=> to \notin DOMAIN before
                ELSE after = before]_vars

\* A capture has been made in a game: 31 pieces are left, the queen that took
\* the king among them.
C25_Witness ==
    \E ref \in GameRefs :
        /\ PieceCount(BoardOf(ref)) = 31
        /\ GlyphCount(BoardOf(ref), <<"bK">>) = 0
        /\ GlyphCount(BoardOf(ref), <<"wQ">>) = 1
        /\ At(BoardOf(ref), <<"e", "8">>) = <<"wQ">>

\* C26: the move history is an append-only log. A step leaves the history of
\* a game as it is or appends one record to it, so every earlier history is a
\* prefix of every later one; a move answered with success appends exactly
\* the record of its from, its to, the glyph that stood on from and the side
\* whose turn it was; a request answered with an error appends nothing; and
\* the moveCount of every gameState sent is the length of the moveHistory in
\* it, which is the length of the game's history when it is sent.
C26_HistoryAppendOnly ==
    /\ [](lastResp.gameState.moveCount = Len(lastResp.gameState.moveHistory.value))
    /\ [][/\ \A ref \in GameRefs :
               LET history == games[ref].moveHistory
                   after == games'[ref].moveHistory
               IN  /\ Len(after) \in {Len(history), Len(history) + 1}
                   /\ SubSeq(after, 1, Len(history)) = history
                   /\ MoveRecorded(ref) =>
                          /\ lastResp'.status = 200
                          /\ lastResp'.op \in {"move", "ai-move"}
                          /\ after[Len(after)].from = lastResp'.move[1]
                          /\ after[Len(after)].to = lastResp'.move[2]
                          /\ after[Len(after)].piece = BoardOf(ref)[lastResp'.move[1]]
                          /\ after[Len(after)].player = games[ref].currentPlayer
          /\ (lastResp' # lastResp /\ lastResp'.op \in {"move", "ai-move"}) =>
                 IF lastResp'.status = 200
                 THEN LET ref == gameStates[lastResp'.gameId]
                      IN  /\ MoveRecorded(ref)
                          /\ lastResp'.gameState.moveHistory.value = games'[ref].moveHistory
                          /\ lastResp'.gameState.moveCount = Len(games'[ref].moveHistory)
                 ELSE UNCHANGED games]_vars

\* The third move of a game, the capture e4 takes d5, has been recorded and
\* its response reports three moves.
C26_Witness ==
    /\ lastResp.status = 200
    /\ lastResp.gameState.moveCount = 3
    /\ \E ref \in GameRefs :
           LET history == games[ref].moveHistory
           IN  /\ Len(history) = 3
               /\ history[3].from = <<"e", "4">>
               /\ history[3].to = <<"d", "5">>
               /\ history[3].piece = <<"wP">>
               /\ history[3].player = "white"

\* The board and the history a gameState holds, read in a state with the
\* board objects allBoards and the game objects allGames.
SnapshotBoard(state, allBoards) ==
    IF "ref" \in DOMAIN state.board THEN allBoards[state.board.ref]
    ELSE state.board.value

SnapshotHistory(state, allGames) ==
    IF "ref" \in DOMAIN state.moveHistory
    THEN allGames[state.moveHistory.ref].moveHistory
    ELSE state.moveHistory.value

\* C27: a gameState sent by create, a move, get or ai-move shows the game as
\* it is when it is sent, and the board and history in a gameState that a
\* receiver keeps stay as they were whatever is done to the game afterwards.
C27_SnapshotImmutable ==
    [][/\ client'.gameState = client.gameState =>
              /\ SnapshotBoard(client.gameState, boards')
                     = SnapshotBoard(client.gameState, boards)
              /\ SnapshotHistory(client.gameState, games')
                     = SnapshotHistory(client.gameState, games)
       /\ (lastResp' # lastResp /\ lastResp'.status = 200
              /\ lastResp'.op \in {"new", "get", "move", "ai-move"}) =>
              LET ref == gameStates'[lastResp'.gameId]
              IN  /\ SnapshotBoard(lastResp'.gameState, boards') = BoardAfter(ref)
                  /\ SnapshotHistory(lastResp'.gameState, games')
                         = games'[ref].moveHistory
                  /\ lastResp'.gameState.currentPlayer = games'[ref].currentPlayer]_vars

\* The client keeps the gameState sent after white's first move, e2-e4, and
\* two more moves have been made since: the kept state still shows one move
\* and the pawn on e4, which the game's board no longer has.
C27_Witness ==
    /\ client.gameState.moveCount = 1
    /\ Len(SnapshotHistory(client.gameState, games)) = 1
    /\ At(SnapshotBoard(client.gameState, boards), <<"e", "4">>) = <<"wP">>
    /\ \E ref \in GameRefs :
           /\ Len(games[ref].moveHistory) = 3
           /\ At(BoardOf(ref), <<"e", "4">>) = Undefined

ValidatedByBoth == validation.method = "isValidMove, ChessLogic.isValidMove"

\* C28: for every board, from, to and side to move, ChessLogic.isValidMove
\* accepts exactly when ChessValidator.isValidMove accepts; so a destination
\* the UI highlights, which is one ChessLogic.isValidMove accepts on the
\* board shown, is accepted by the server's validator on an equal board.
C28_ValidatorsAgree ==
    ValidatedByBoth => validation.frontend = validation.result

\* Both validators accepted the capture of the black pawn on e5 by the white
\* pawn on d4, and both refused the same pawn the step onto an occupied d5.
C28_Witness ==
    /\ ValidatedByBoth
    /\ validation.from = <<"d", "4">>
    /\ validation.board = [sq \in {<<"d", "4">>, <<"e", "5">>} |->
                              IF sq = <<"d", "4">> THEN <<"wP">> ELSE <<"bP">>]
    /\ validation.to = <<"e", "5">>
    /\ validation.currentPlayer = "white"
    /\ validation.result = TRUE
    /\ validation.frontend = TRUE

\* C29: in every tic-tac-toe game the human is X and the AI is O: a mark is
\* written only onto an empty cell, the mark written by a step of an ai-move
\* request is O and the mark written by a player-move request is X.
C29_AiWritesO ==
    [][\A ref \in TicTacToeRefs : \A i \in 1..9 :
          ticTacToeGames'[ref].board[i] # ticTacToeGames[ref].board[i] =>
              /\ ticTacToeGames[ref].board[i] = "null"
              /\ lastResp'.op \in {"ttt-move", "ttt-ai-move"}
              /\ ticTacToeGames'[ref].board[i] =
                     (IF lastResp'.op = "ttt-ai-move" THEN "O" ELSE "X")]_vars

\* The user can select a white piece by a click, and the server accepts a
\* move of the player in the client's game.
PlayerCanMove ==
    /\ \E square \in ClickSquares :
           ENABLED (HandleSquareClick(square) /\ client'.selectedSquare = square)
    /\ \E m \in MoveRequests :
           ENABLED (PlayerMove(client.gameState.gameId, m[1], m[2])
                        /\ lastResp'.status = 200)

\* C30: when the client's ai-move request has failed with an error of the AI
\* (service unavailable, no usable move, an illegal move), the turn is the
\* human player's: the player can select a white piece and have a move
\* accepted.
C30_PlayerTurnAfterAiFailure ==
    ( /\ lastResp.op = "ai-move"
      /\ lastResp.status = 500
      /\ client.status = "AI encountered an error. Your turn!"
      /\ ~client.aiThinking )
    => PlayerCanMove

\* makeMove was called on the object and on the client's state.
MoveMade == validation'.method = "makeMove, TicTacToeLogic.makeMove"

\* C31: a tic-tac-toe makeMove for a position outside 0..8, for an occupied
\* cell or for a game that is over is rejected: the object's makeMove returns
\* false and leaves board, currentPlayer, winner, isDraw, isGameOver and
\* moveCount as they were, and TicTacToeLogic.makeMove returns the state it
\* was given.
C31_RejectedMoveKeepsState ==
    [][(MoveMade /\ ticTacToeGames # <<>>) =>
          LET position == validation'.position
              game == ticTacToeGames[1]
              gameState == client.ticTacToeGameState
          IN  /\ ( \/ position \notin 0..8
                   \/ game.board[position + 1] # "null"
                   \/ game.isGameOver )
                  => /\ validation'.result = FALSE
                     /\ ticTacToeGames' = ticTacToeGames
              /\ ( \/ position \notin 0..8
                   \/ gameState.board[position + 1] # "null"
                   \/ gameState.isGameOver )
                  => /\ validation'.frontend = FALSE
                     /\ client'.ticTacToeGameState = gameState]_vars

\* A move onto the occupied cell 4 was rejected in a game of three moves.
C31_Witness ==
    /\ validation.method = "makeMove, TicTacToeLogic.makeMove"
    /\ validation.position = 4
    /\ validation.result = FALSE
    /\ validation.frontend = FALSE
    /\ ticTacToeGames # <<>>
    /\ ticTacToeGames[1].moveCount = 3
    /\ ticTacToeGames[1].board[5] = "X"
    /\ client.ticTacToeGameState.moveCount = 3

\* C32: a tic-tac-toe game that is over never changes again: no step of any
\* player-move or ai-move request, the resumption of an ai-move request
\* suspended before the game ended included, changes its board, winner,
\* isDraw, isGameOver, moveCount or currentPlayer.
C32_TerminatedIsImmutable ==
    [][\A ref \in TicTacToeRefs :
          ticTacToeGames[ref].isGameOver => ticTacToeGames'[ref] = ticTacToeGames[ref]]_vars

\* The game is over, an ai-move request suspended before it ended has been
\* answered 'AI made invalid move', and the board is as the win left it.
C32_Witness ==
    /\ lastResp.op = "ttt-ai-move"
    /\ lastResp.error = "AI made invalid move"
    /\ \E ref \in TicTacToeRefs :
           /\ ticTacToeGames[ref].isGameOver
           /\ ticTacToeGames[ref].winner = "X"
           /\ \E i \in 1..9 : ticTacToeGames[ref].board[i] = "null"

\* C33: isValidMove(board, s, s, mover) is false for every square s, every
\* board and either mover: no piece, the rook, bishop and queen with their
\* empty path included, can move to the square it stands on.
C33_NoMoveToOwnSquare ==
    (Validated /\ validation.to = validation.from) => validation.result = FALSE

\* A rook, bishop or queen of the mover was asked to go to its own square
\* and was refused.
C33_Witness ==
    /\ Validated
    /\ validation.to = validation.from
    /\ KindOf(MovedPiece) \in {"rook", "bishop", "queen"}
    /\ ColourOf(MovedPiece) = validation.currentPlayer
    /\ validation.result = FALSE

\* The calls of isPathClear made by the validated piece rule.
PathCalls ==
    isPathClearCalls(validation.board, validation.from, validation.to, MovedPiece)

OnBoard(c) == c.file \in 0..7 /\ c.rank \in 0..7

\* `from' and `to' of a call are on a common rank, file or diagonal.
Aligned(call) ==
    \/ call[1].file = call[2].file
    \/ call[1].rank = call[2].rank
    \/ Abs(call[2].file - call[1].file) = Abs(call[2].rank - call[1].rank)

\* C34: every call of isPathClear made while a move is validated returns: it
\* is made with from and to on a common rank, file or diagonal, its loop
\* leaves after at most 7 steps, and every square it reads is on the board.
C34_PathWalkReturns ==
    validation.method = "isValidPieceMove" =>
        \A call \in PathCalls :
            LET walk == isPathClear_Walk(validation.board, call[1], call[2])
            IN  /\ Aligned(call)
                /\ walk.returns
                /\ Len(walk.read) + 1 <= 7
                /\ \A i \in 1..Len(walk.read) : OnBoard(walk.read[i])

\* The rook on a1 was asked to go to a8 over six empty squares: the loop
\* read a2 to a7 and arrived at a8.
C34_Witness ==
    /\ RuleApplied("rook")
    /\ validation.from = <<"a", "1">>
    /\ validation.to = <<"a", "8">>
    /\ PathCalls # {}
    /\ \A call \in PathCalls :
           LET walk == isPathClear_Walk(validation.board, call[1], call[2])
           IN  walk.returns /\ Len(walk.read) = 6
    /\ validation.result = TRUE

\* The lines of the tic-tac-toe board, as sets of cells.
Lines ==
    {{0, 1, 2}, {3, 4, 5}, {6, 7, 8}, {0, 3, 6}, {1, 4, 7}, {2, 5, 8},
     {0, 4, 8}, {2, 4, 6}}

\* `mark' fills a line of the board.
CompletedBy(board, mark) ==
    \E line \in Lines : \A cell \in line : board[cell + 1] = mark

\* The outcome flags of a tic-tac-toe state agree with its board.
OutcomeConsistent(state) ==
    /\ state.winner \in {"X", "O", "null"}
    /\ state.winner # "null" => CompletedBy(state.board, state.winner)
    /\ state.winner = "null" =>
           ~ \E mark \in {"X", "O"} : CompletedBy(state.board, mark)
    /\ state.isDraw <=> (state.winner = "null" /\ state.moveCount = 9)
    /\ state.isGameOver <=> (state.winner # "null" \/ state.isDraw)
    /\ ~(state.winner # "null" /\ state.isDraw)

\* C35: in every tic-tac-toe state, of the server's game and of the client's
\* logic, winner is the mark of a completed line if there is one and null
\* otherwise, isDraw holds iff there is no winner and moveCount is 9,
\* isGameOver holds iff there is a winner or a draw, and winner and isDraw
\* are never both set.
C35_OutcomeMatchesBoard ==
    /\ \A ref \in TicTacToeRefs : OutcomeConsistent(ticTacToeGames[ref])
    /\ OutcomeConsistent(client.ticTacToeGameState)

\* The ninth move completed a line, on the server and on the client: the
\* board is full, there is a winner and no draw.
C35_Witness ==
    /\ ticTacToeGames # <<>>
    /\ ticTacToeGames[1].moveCount = 9
    /\ ticTacToeGames[1].winner = "X"
    /\ ~ticTacToeGames[1].isDraw
    /\ client.ticTacToeGameState.moveCount = 9
    /\ client.ticTacToeGameState.winner = "X"
    /\ ~client.ticTacToeGameState.isDraw

\* The number of cells of a board that hold `mark'.
Marked(board, mark) == Cardinality({i \in 1..9 : board[i] = mark})

\* The counters of a tic-tac-toe game agree with its board.
CountsConsistent(game) ==
    /\ game.moveCount \in 0..9
    /\ game.moveCount = Marked(game.board, "X") + Marked(game.board, "O")
    /\ Marked(game.board, "X") - Marked(game.board, "O") \in {0, 1}
    /\ game.currentPlayer = "X" <=> game.moveCount % 2 = 0

\* C36: under any interleaving of player-move and ai-move requests, in every
\* tic-tac-toe game moveCount is the number of marked cells and lies in 0..9,
\* the number of X marks exceeds the number of O marks by 0 or 1,
\* currentPlayer is X iff moveCount is even, and no step overwrites or
\* clears a marked cell.
C36_CountsMatchBoard ==
    /\ [](\A ref \in TicTacToeRefs : CountsConsistent(ticTacToeGames[ref]))
    /\ [][\A ref \in TicTacToeRefs : \A i \in 1..9 :
              ticTacToeGames[ref].board[i] # "null"
                  => ticTacToeGames'[ref].board[i] = ticTacToeGames[ref].board[i]]_vars

\* The third mark of a game was made by an ai-move request, one that was
\* suspended while another ai-move request made the second.
C36_Witness ==
    /\ ticTacToeGames # <<>>
    /\ ticTacToeGames[1].moveCount = 3
    /\ Marked(ticTacToeGames[1].board, "X") = 2
    /\ Marked(ticTacToeGames[1].board, "O") = 1
    /\ lastResp.op = "ttt-ai-move"
    /\ lastResp.status = 200

\* A tic-tac-toe state has had at most nine moves, is over once it has had
\* nine, and is not over before it has had five.
GameBounded(state) ==
    /\ state.moveCount \in 0..9
    /\ state.moveCount = 9 => state.isGameOver
    /\ state.isGameOver => state.moveCount >= 5

\* C37: every tic-tac-toe game ends: each accepted move adds one to
\* moveCount, which never exceeds 9; the game is over when moveCount is 9 and
\* not before it is 5; and once it is over makeMove accepts no position, on
\* the server and in the client's logic.
C37_GameEnds ==
    /\ [](/\ \A ref \in TicTacToeRefs :
                /\ GameBounded(ticTacToeGames[ref])
                /\ ticTacToeGames[ref].isGameOver =>
                       \A position \in PositionRequests :
                           ~TicTacToeMakeMove(ticTacToeGames[ref], position).ok
          /\ GameBounded(client.ticTacToeGameState)
          /\ client.ticTacToeGameState.isGameOver =>
                 \A position \in PositionRequests :
                     TicTacToeLogic_makeMove(client.ticTacToeGameState, position)
                         = client.ticTacToeGameState)
    /\ [][/\ \A ref \in TicTacToeRefs :
                ticTacToeGames'[ref] # ticTacToeGames[ref] =>
                    ticTacToeGames'[ref].moveCount = ticTacToeGames[ref].moveCount + 1
          /\ client'.ticTacToeGameState # client.ticTacToeGameState =>
                 client'.ticTacToeGameState.moveCount
                     = client.ticTacToeGameState.moveCount + 1]_vars

\* The game was won with the fifth move, and a move to a free cell made
\* after that was refused by the server and by the client's logic.
C37_Witness ==
    /\ ticTacToeGames # <<>>
    /\ ticTacToeGames[1].isGameOver
    /\ ticTacToeGames[1].moveCount = 5
    /\ client.ticTacToeGameState.isGameOver
    /\ client.ticTacToeGameState.moveCount = 5
    /\ validation.method = "makeMove, TicTacToeLogic.makeMove"
    /\ validation.position \in 0..8
    /\ ticTacToeGames[1].board[validation.position + 1] = "null"
    /\ validation.result = FALSE
    /\ validation.frontend = FALSE

\* The fields the two implementations of tic-tac-toe share.
SharedFields == {"board", "currentPlayer", "winner", "isDraw", "isGameOver", "moveCount"}

\* C38: applied from the initial state to the same positions,
\* TicTacToeLogic.makeMove and TicTacToeGame.makeMove accept and reject the
\* same moves, and after every step they agree on board, currentPlayer,
\* winner, isDraw, isGameOver and moveCount.
C38_SameGame ==
    /\ validation.method = "makeMove, TicTacToeLogic.makeMove"
           => validation.frontend = validation.result
    /\ ticTacToeGames # <<>> =>
           \A field \in SharedFields :
               client.ticTacToeGameState[field] = ticTacToeGames[1][field]

\* Both implementations have played the same drawn game of nine moves, and
\* both refused the position given after it.
C38_Witness ==
    /\ ticTacToeGames # <<>>
    /\ ticTacToeGames[1].isDraw
    /\ client.ticTacToeGameState.isDraw
    /\ client.ticTacToeGameState.board = ticTacToeGames[1].board
    /\ validation.method = "makeMove, TicTacToeLogic.makeMove"
    /\ validation.result = FALSE
    /\ validation.frontend = FALSE

\* The game created last.
NewestGame == games[Len(games)]

\* C39: once a chess game is shown, the state the client shows is that of
\* the game created last, also when the response to an ai-move request made
\* for an earlier game arrives after New Game was clicked, and the selected
\* square holds a white piece of the board shown.
C39_ShowsNewestGame ==
    client.gameState # NoGameState =>
        /\ client.gameState.gameId = NewestGame.gameId
        /\ client.selectedSquare # <<>> =>
               LET piece == At(client.gameState.board.value, client.selectedSquare)
               IN  Truthy(piece) /\ ChessLogic_isWhitePiece(piece)

=============================================================================
